---- MODULE Spec2Model ----
(***************************************************************************)
(* Evidence collection: the section-aware chunker (document_parser.py),    *)
(* the four signal scorers (job/patent/tech/leadership_signals.py), the    *)
(* CompanySignalSummary model (models/signal.py), the summary upsert       *)
(* (services/snowflake.py) and the leadership-excluded report              *)
(* (routers/report.py, scripts/generate_report.py).                        *)
(*                                                                         *)
(* Conventions.  A text is modelled by the number of words text.split()    *)
(* returns; a chunk by the word span [start_idx, end_idx) it was cut from.  *)
(* A float score is modelled exactly: normalized scores are integers in    *)
(* tenths of a point (the scorers round to one decimal), weighted sums are  *)
(* kept as numerators over a fixed denominator.  Where character offsets   *)
(* matter the words of one document all have doc.word_len characters, so   *)
(* that a joined text is known by its number of characters.                *)
(***************************************************************************)
EXTENDS Integers, Sequences, FiniteSets, TLC

VARIABLES
    \* ---- SemanticChunker (document_parser.py) ----
    chunk_size,        \* self.chunk_size
    chunk_overlap,     \* self.chunk_overlap
    min_chunk_size,    \* self.min_chunk_size
    doc,               \* the ParsedDocument: [sections: Seq([name, words]), content: Nat,
                       \*   word_len: the characters of each of its words]
    pc,                \* position inside chunk_document / _chunk_text
    sec_i,             \* number of doc.sections items the for loop has taken
    section,           \* _chunk_text's section argument
    words,             \* len(words) in _chunk_text
    start_idx,         \* _chunk_text's start_idx
    chunk_index,       \* _chunk_text's chunk_index
    section_chunks,    \* _chunk_text's local list `chunks`
    chunks,            \* chunk_document's list `chunks`
    \* ---- scorers ----
    call,              \* the last pipeline call: its name, input, score and outcome
    \* ---- CompanySignalSummary object ----
    summary,           \* the pydantic object, or NoObject
    \* ---- warehouse tables and reports ----
    companies,                 \* main(companies): the companies the run collects for
    documents,                 \* rows of documents
    document_chunks,           \* rows of document_chunks
    external_signals,          \* rows of external_signals
    company_signal_summaries,  \* rows of company_signal_summaries
    db_call,                   \* the last SnowflakeService call: rows written, value returned
    report,                    \* the rows of the last report produced
    \* ---- SECEdgarPipeline (sec_edgar.py) ----
    edgar,                     \* the pipeline object and its call of _retry_with_backoff
    \* ---- collection runs ----
    collect,                   \* a document collection run (script or API background task)
    runs                       \* the signal-collection runs of one company, by run id

chunkVars == <<chunk_size, chunk_overlap, min_chunk_size, doc, pc, sec_i, section,
               words, start_idx, chunk_index, section_chunks, chunks>>
scoreVars == <<call>>
summaryVars == <<summary>>
storeVars == <<companies, documents, document_chunks, external_signals, company_signal_summaries,
               db_call, report>>
edgarVars == <<edgar>>
collectVars == <<collect>>
runVars == <<runs>>
vars == <<chunkVars, scoreVars, summaryVars, storeVars, edgarVars, collectVars, runVars>>
\* what a step of one subsystem leaves alone
notChunk == <<scoreVars, summaryVars, storeVars, edgarVars, collectVars, runVars>>
notScore == <<chunkVars, summaryVars, storeVars, edgarVars, collectVars, runVars>>
notSummary == <<chunkVars, scoreVars, storeVars, edgarVars, collectVars, runVars>>
notStore == <<chunkVars, scoreVars, summaryVars, edgarVars, collectVars, runVars>>
notEdgar == <<chunkVars, scoreVars, summaryVars, storeVars, collectVars, runVars>>
\* a collection run writes the tables
notCollect == <<chunkVars, scoreVars, summaryVars, edgarVars, runVars>>
\* so does a signal-collection run
notRuns == <<chunkVars, scoreVars, summaryVars, edgarVars, collectVars>>

Min(a, b) == IF a <= b THEN a ELSE b
Max(a, b) == IF a >= b THEN a ELSE b

(***************************************************************************)
(* Bounds of the model.                                                    *)
(***************************************************************************)
MaxChunkSize == 3      \* small configurations: chunk_size in 1..MaxChunkSize
MaxMinChunk == 3       \* small configurations: min_chunk_size in 0..MaxMinChunk
MaxWords == 6          \* small texts: 0..MaxWords words
MaxSections == 2       \* small documents: at most MaxSections sections
MaxChunks == 8         \* a text unit is cut into at most MaxChunks chunks

(***************************************************************************)
(* SemanticChunker                                                         *)
(***************************************************************************)
\* SemanticChunker.__init__ defaults
DefaultChunkSize == 1000
DefaultChunkOverlap == 100
DefaultMinChunkSize == 200

\* DocumentParser.SECTION_PATTERNS, in dict order
SectionNames == <<"item_1", "item_1a", "item_7", "item_7a">>
NoSection == "None"

DefaultConfig == [chunk_size |-> DefaultChunkSize,
                  chunk_overlap |-> DefaultChunkOverlap,
                  min_chunk_size |-> DefaultMinChunkSize]

\* Small configurations satisfying the documented precondition overlap < chunk_size.
SmallConfigs ==
    { [chunk_size |-> cs, chunk_overlap |-> ov, min_chunk_size |-> mn] :
        cs \in 1..MaxChunkSize, ov \in 0..(MaxChunkSize - 1), mn \in 0..MaxMinChunk }

ValidSmallConfigs == { c \in SmallConfigs : c.chunk_overlap < c.chunk_size }

\* The sections dict as the sequence of its items: names in SECTION_PATTERNS order.
RECURSIVE SectionSeqs(_, _)
SectionSeqs(from, k) ==
    IF k = 0 \/ from > Len(SectionNames) THEN { <<>> }
    ELSE SectionSeqs(from + 1, k)
         \cup { <<[name |-> SectionNames[from], words |-> w]>> \o rest :
                  w \in 0..MaxWords, rest \in SectionSeqs(from + 1, k - 1) }

RECURSIVE SumWords(_)
SumWords(s) == IF s = <<>> THEN 0 ELSE Head(s).words + SumWords(Tail(s))

\* characters per word in the small documents
WordLens == {1, 3}
ScenarioWordLen == 5

SmallDocs ==
    { [sections |-> s, content |-> SumWords(s), word_len |-> l] :
        s \in SectionSeqs(1, MaxSections) \ { <<>> }, l \in WordLens }
    \cup { [sections |-> <<>>, content |-> w, word_len |-> l] : w \in 0..MaxWords, l \in WordLens }

\* The sections of the end-to-end scenarios, chunked with the default configuration.
ScenarioWords == {2500, 2150, 2050}
ScenarioDocs ==
    { [sections |-> <<[name |-> "item_1", words |-> w]>>, content |-> w,
       word_len |-> ScenarioWordLen] : w \in ScenarioWords }

ChunkInputs ==
    (ValidSmallConfigs \X SmallDocs) \cup ({DefaultConfig} \X (ScenarioDocs \cup SmallDocs))

\* One text unit (the whole content, or one section) under any small
\* configuration, overlap >= chunk_size included.
UnitDocs ==
    { [sections |-> <<>>, content |-> w, word_len |-> l] : w \in 0..MaxWords, l \in WordLens }
    \cup { [sections |-> <<[name |-> "item_1", words |-> w]>>, content |-> w, word_len |-> l] :
              w \in 0..MaxWords, l \in WordLens }

AnyConfigInputs == SmallConfigs \X UnitDocs

\* the candidate end without the tiny-tail extension
EndIdxNoMerge(start, n) == Min(start + chunk_size, n)

\* the tiny-tail test taken with <= instead of <
EndIdxEagerMerge(start, n) ==
    LET end_idx == Min(start + chunk_size, n)
    IN  IF n - end_idx <= min_chunk_size THEN n ELSE end_idx

\* _chunk_text lines 279-283: the candidate end, extended over a tiny tail
EndIdx(start, n) ==
    LET end_idx == Min(start + chunk_size, n)
    IN  IF n - end_idx < min_chunk_size THEN n ELSE end_idx

\* moving forward without the overlap
NextStartNoOverlap(end_idx) == end_idx

\* moving forward one word too far
NextStartSkip(end_idx) == end_idx - chunk_overlap + 1

\* moving back by a whole chunk instead of the overlap
NextStartBack(end_idx) == end_idx - chunk_size

\* _chunk_text line 303: move forward with overlap
NextStart(end_idx) == end_idx - chunk_overlap

\* len(words[s:e]) for a list of n words: a negative index counts from the end
SliceLen(s, e, n) ==
    LET lo == IF s < 0 THEN Max(s + n, 0) ELSE Min(s, n)
        hi == IF e < 0 THEN Max(e + n, 0) ELSE Min(e, n)
    IN  Max(hi - lo, 0)

\* _chunk_text line 276: every call starts its own counter
InitialChunkIndex == 0

\* joining with no separator
JoinLenNoSeparator(k, l) == k * l

\* len(" ".join(ws)) for k words of l characters each
JoinLen(k, l) == IF k = 0 THEN 0 ELSE k * l + (k - 1)

\* len(s.split()) for a text s of c characters made of l-character words and
\* single spaces: a word ends with every l + 1 characters, and with the text
SplitLen(c, l) == IF c = 0 THEN 0 ELSE (c + l) \div (l + 1)

\* DocumentChunk(...) as built at lines 285-300; content is the joined
\* words[start_idx:end_idx], carried as its number of characters
DocumentChunk(ci, s, e, sec) ==
    LET content == JoinLen(SliceLen(s, e, words), doc.word_len)
        start_char == JoinLen(SliceLen(0, s, words), doc.word_len)
    IN  [chunk_index |-> ci, start_idx |-> s, end_idx |-> e, section |-> sec,
         content |-> content,
         start_char |-> start_char,
         end_char |-> start_char + content,
         word_count |-> SliceLen(s, e, words)]

ChunkIdle ==
    /\ chunk_size = DefaultChunkSize
    /\ chunk_overlap = DefaultChunkOverlap
    /\ min_chunk_size = DefaultMinChunkSize
    /\ doc = [sections |-> <<>>, content |-> 0, word_len |-> 1]
    /\ pc = "idle"
    /\ sec_i = 0
    /\ section = NoSection
    /\ words = 0
    /\ start_idx = 0
    /\ chunk_index = 0
    /\ section_chunks = <<>>
    /\ chunks = <<>>

\* chunk_document entered (line 248: chunks = []) on one of the given inputs
ChunkStart(inputs) ==
    /\ \E in \in inputs :
         /\ chunk_size = in[1].chunk_size
         /\ chunk_overlap = in[1].chunk_overlap
         /\ min_chunk_size = in[1].min_chunk_size
         /\ doc = in[2]
    /\ pc = "for_sections"
    /\ sec_i = 0
    /\ section = NoSection
    /\ words = 0
    /\ start_idx = 0
    /\ chunk_index = 0
    /\ section_chunks = <<>>
    /\ chunks = <<>>

ChunkInit == ChunkStart(ChunkInputs)

\* chunk_document entered with the precondition on overlap not assumed
ChunkInitAny == ChunkStart(AnyConfigInputs)

\* _chunk_text entered (lines 272-276)
EnterChunkText(n, sec) ==
    /\ words' = n
    /\ section' = sec
    /\ start_idx' = 0
    /\ chunk_index' = InitialChunkIndex
    /\ section_chunks' = <<>>
    /\ pc' = "while"

\* chunk_document line 251-256: the for loop takes the next section
BeginSection ==
    /\ pc = "for_sections"
    /\ sec_i < Len(doc.sections)
    /\ EnterChunkText(doc.sections[sec_i + 1].words, doc.sections[sec_i + 1].name)
    /\ sec_i' = sec_i + 1
    /\ UNCHANGED <<chunk_size, chunk_overlap, min_chunk_size, doc, chunks, notChunk>>

\* chunking the whole content after the sections as well
BeginFallbackAlways ==
    /\ pc = "for_sections"
    /\ sec_i = Len(doc.sections)
    /\ EnterChunkText(doc.content, NoSection)
    /\ sec_i' = sec_i + 1
    /\ UNCHANGED <<chunk_size, chunk_overlap, min_chunk_size, doc, chunks, notChunk>>

\* chunk_document lines 260-261: no sections, chunk the whole content
BeginFallback ==
    /\ pc = "for_sections"
    /\ sec_i = Len(doc.sections)
    /\ doc.sections = <<>>
    /\ EnterChunkText(doc.content, NoSection)
    /\ sec_i' = sec_i + 1
    /\ UNCHANGED <<chunk_size, chunk_overlap, min_chunk_size, doc, chunks, notChunk>>

\* _chunk_text lines 278-307: one iteration of the while loop, the break included
WhileIteration ==
    /\ pc = "while"
    /\ start_idx < words
    /\ Len(section_chunks) < MaxChunks
    /\ LET end_idx == EndIdx(start_idx, words)
       IN  /\ section_chunks' =
                Append(section_chunks, DocumentChunk(chunk_index, start_idx, end_idx, section))
           /\ start_idx' = NextStart(end_idx)
           /\ chunk_index' = chunk_index + 1
           /\ pc' = IF end_idx >= words THEN "return_text" ELSE "while"
    /\ UNCHANGED <<chunk_size, chunk_overlap, min_chunk_size, doc, sec_i, section, words, chunks,
                   notChunk>>

\* _chunk_text line 278: the loop condition is false
WhileExit ==
    /\ pc = "while"
    /\ ~(start_idx < words)
    /\ pc' = "return_text"
    /\ UNCHANGED <<chunk_size, chunk_overlap, min_chunk_size, doc, sec_i, section, words,
                   start_idx, chunk_index, section_chunks, chunks, notChunk>>

\* _chunk_text line 309 and chunk_document line 257 (extend) or 261 (assign)
ReturnChunkText ==
    /\ pc = "return_text"
    /\ chunks' = IF doc.sections = <<>> THEN section_chunks ELSE chunks \o section_chunks
    /\ pc' = "for_sections"
    /\ UNCHANGED <<chunk_size, chunk_overlap, min_chunk_size, doc, sec_i, section, words,
                   start_idx, chunk_index, section_chunks, notChunk>>

\* chunk_document line 263: return chunks
ReturnChunks ==
    /\ pc = "for_sections"
    /\ sec_i >= Len(doc.sections)
    /\ doc.sections = <<>> => sec_i > 0
    /\ pc' = "done"
    /\ UNCHANGED <<chunk_size, chunk_overlap, min_chunk_size, doc, sec_i, section, words,
                   start_idx, chunk_index, section_chunks, chunks, notChunk>>

ChunkNext ==
    \/ BeginSection
    \/ BeginFallback
    \/ WhileIteration
    \/ WhileExit
    \/ ReturnChunkText
    \/ ReturnChunks

(***************************************************************************)
(* Signal models (models/signal.py)                                        *)
(***************************************************************************)
\* SignalCategory members -> values
SignalCategory ==
    [TECHNOLOGY_HIRING |-> "technology_hiring",
     INNOVATION_ACTIVITY |-> "innovation_activity",
     DIGITAL_PRESENCE |-> "digital_presence",
     LEADERSHIP_SIGNALS |-> "leadership_signals"]

\* SignalSource member names; the value of a member is its lowercased name
SignalSourceMembers ==
    {"LINKEDIN", "INDEED", "GLASSDOOR", "USPTO", "BUILTWITH", "PRESS_RELEASE",
     "COMPANY_WEBSITE"}

\* Evaluating SignalSource.<member>: a name the enum lacks raises AttributeError
SignalSourceHas(member) == member \in SignalSourceMembers

CompanyIds == {"c1", "c2"}
None == "None"

\* Scores are carried in tenths of a point: Field(ge=0, le=100)
ScoreLow == 0
ScoreHigh == 1000
\* Confidence is carried in hundredths: Field(ge=0, le=1)
ConfidenceHigh == 100

\* ExternalSignal(...): pydantic validation of the fields the scorers pass
ExternalSignalValid(company_id, normalized_score, confidence) ==
    /\ company_id \in CompanyIds
    /\ ScoreLow <= normalized_score /\ normalized_score <= ScoreHigh
    /\ 0 <= confidence /\ confidence <= ConfidenceHigh

ExternalSignal(company_id, category, source, raw_value, normalized_score, confidence, metadata) ==
    [company_id |-> company_id, category |-> category, source |-> source,
     raw_value |-> raw_value, normalized_score |-> normalized_score,
     confidence |-> confidence, metadata |-> metadata]

\* round(x, 1) of x = n/d points, in tenths; n >= 0, d > 0.  Ties go to the even
\* digit, as Python's round does on an exactly representable tie.
RoundHalfEven(n, d) ==
    LET q == n \div d
        r == n % d
    IN  IF 2 * r < d THEN q
        ELSE IF 2 * r > d THEN q + 1
        ELSE IF q % 2 = 0 THEN q ELSE q + 1

(***************************************************************************)
(* Observation lists.  A list is modelled run-length encoded: a sequence   *)
(* of runs [item, count], standing for `count` equal items in a row.  The  *)
(* scorers only count items and unite their tags, so order is immaterial.  *)
(***************************************************************************)
MaxRun == 6            \* a run holds 0..MaxRun items, or ManyItems
ManyItems == 10000     \* the adversarial volume of spec section 8
RunCounts == (0..MaxRun) \cup {ManyItems}

RECURSIVE SumSeq(_)
SumSeq(s) == IF s = <<>> THEN 0 ELSE Head(s) + SumSeq(Tail(s))

\* len(list)
Length(list) == SumSeq([i \in 1..Len(list) |-> list[i].count])

\* len([x for x in list if P(x)])
CountWhere(list, P(_)) ==
    SumSeq([i \in 1..Len(list) |-> IF P(list[i].item) THEN list[i].count ELSE 0])

\* the set built by s.update(Tags(x)) over the x of list with P(x)
UnionWhere(list, P(_), Tags(_)) ==
    UNION { IF P(list[i].item) /\ list[i].count > 0 THEN Tags(list[i].item) ELSE {} :
              i \in 1..Len(list) }

\* no scorer has been called yet
NoCall ==
    [op |-> "none", observations |-> 0, input |-> <<>>, score |-> 0, outcome |-> "none",
     signals |-> <<>>]

TwoRuns(Items) ==
    { <<[item |-> a, count |-> m], [item |-> b, count |-> n]>> :
        a \in Items, b \in Items, m \in RunCounts, n \in RunCounts }

(***************************************************************************)
(* JobSignalCollector (job_signals.py)                                     *)
(***************************************************************************)
\* _is_tech_job's tech_keywords
TechKeywords ==
    {"engineer", "developer", "programmer", "software", "data", "analyst", "scientist",
     "technical"}

\* A posting: title is the set of tech keywords occurring in title.lower();
\* ai_skills is the set of the entries of its ai_skills list.
NumAiSkills == 14
SkillChoices == { {}, 1..6, 5..NumAiSkills }
JobPostings ==
    [title : { {}, {"engineer"} }, is_ai_related : BOOLEAN, ai_skills : SkillChoices]

\* _is_tech_job: any(kw in title_lower for kw in tech_keywords)
IsTechJob(p) == p.title \cap TechKeywords # {}

IsAiRelated(x) == x.is_ai_related
Always(x) == TRUE
AiSkillsOf(p) == p.ai_skills

\* analyze_job_postings line 73, times total_tech_jobs (times 1 when there is none):
\* min(ai_ratio * 60, 60) with ai_ratio = ai_jobs / total_tech_jobs, or 0
RatioPointsDropCap(ai_jobs, total_tech_jobs) ==
    IF total_tech_jobs > 0 THEN ai_jobs * 60 ELSE 0
RatioPoints(ai_jobs, total_tech_jobs) ==
    IF total_tech_jobs > 0 THEN Min(ai_jobs * 60, 60 * total_tech_jobs) ELSE 0

\* line 74: min(len(all_skills) / 10, 1) * 20
SkillPoints(n_skills) == 2 * Min(n_skills, 10)

\* the volume bonus without its cap: ai_jobs / 5 * 20
VolumePointsNoCap(ai_jobs) == 4 * ai_jobs

\* line 75: min(ai_jobs / 5, 1) * 20
VolumePoints(ai_jobs) == 4 * Min(ai_jobs, 5)

\* lines 72-76 and 84: round(score, 1), in tenths
HiringScore(ai_jobs, total_tech_jobs, n_skills) ==
    LET den == Max(total_tech_jobs, 1)
    IN  RoundHalfEven(
            10 * (RatioPoints(ai_jobs, total_tech_jobs)
                  + den * (SkillPoints(n_skills) + VolumePoints(ai_jobs))),
            den)

\* line 85: min(0.5 + total_tech_jobs / 100, 0.95), in hundredths
HiringConfidence(total_tech_jobs) == Min(50 + total_tech_jobs, 95)

\* line 79: company_id=None  # Set by caller
HiringCompanyId == None

\* analyze_job_postings(company, postings)
AnalyzeJobPostings ==
    /\ call = NoCall
    /\ UNCHANGED notScore
    /\ \E postings \in TwoRuns(JobPostings) :
        LET total_tech_jobs == CountWhere(postings, IsTechJob)
            ai_jobs == CountWhere(postings, IsAiRelated)
            all_skills == UnionWhere(postings, Always, AiSkillsOf)
            score == HiringScore(ai_jobs, total_tech_jobs, Cardinality(all_skills))
            confidence == HiringConfidence(total_tech_jobs)
            ok == ExternalSignalValid(HiringCompanyId, score, confidence)
        IN  call' =
              [op |-> "analyze_job_postings",
               observations |-> Length(postings),
               input |-> postings,
               score |-> score,
               outcome |-> IF ok THEN "returned" ELSE "ValidationError",
               signals |->
                 IF ok
                 THEN <<ExternalSignal(HiringCompanyId, SignalCategory.TECHNOLOGY_HIRING,
                          "indeed", <<ai_jobs, total_tech_jobs>>, score, confidence,
                          [total_tech_jobs |-> total_tech_jobs, ai_jobs |-> ai_jobs,
                           skills_found |-> all_skills])>>
                 ELSE <<>>]

(***************************************************************************)
(* PatentSignalCollector (patent_signals.py)                               *)
(***************************************************************************)
\* analyze_patents' default years
DefaultYears == 5

\* classify_patent's category tags
PatentCategories == {"deep_learning", "nlp", "computer_vision", "predictive_analytics"}

\* A patent: age_days is now - filing_date in days.
Patents ==
    [age_days : {10, 365, DefaultYears * 365},
     is_ai_related : BOOLEAN,
     ai_categories : { {}, {"nlp"}, PatentCategories }]

\* line 153-154: p.filing_date > now - timedelta(days=years * 365)
InWindow(p) == p.age_days < DefaultYears * 365

\* counting the AI patents whatever their filing date
IsAiPatentAnyAge(p) == p.is_ai_related

\* line 155: the AI patents among the recent ones
IsAiPatent(p) == InWindow(p) /\ p.is_ai_related

\* lines 162-163: the AI patents filed after now - timedelta(days=365)
IsRecentAi(p) == IsAiPatent(p) /\ p.age_days < 365

AiCategoriesOf(p) == p.ai_categories

\* lines 169-173 and 181: round(score, 1), in tenths
InnovationScore(n_ai, n_recent_ai, n_categories) ==
    10 * (Min(n_ai * 5, 50) + Min(n_recent_ai * 2, 20) + Min(n_categories * 10, 30))

\* line 178: source=SignalSource.LENS
InnovationSourceMember == "LENS"

\* line 182: confidence=0.90, in hundredths
InnovationConfidence == 90

\* analyze_patents(company_id, patents, years=5)
AnalyzePatents ==
    /\ call = NoCall
    /\ UNCHANGED notScore
    /\ \E company_id \in CompanyIds, patents \in TwoRuns(Patents) :
        LET n_ai == CountWhere(patents, IsAiPatent)
            n_recent_ai == CountWhere(patents, IsRecentAi)
            categories == UnionWhere(patents, IsAiPatent, AiCategoriesOf)
            score == InnovationScore(n_ai, n_recent_ai, Cardinality(categories))
            has_source == SignalSourceHas(InnovationSourceMember)
            ok == has_source /\ ExternalSignalValid(company_id, score, InnovationConfidence)
        IN  call' =
              [op |-> "analyze_patents",
               observations |-> Length(patents),
               input |-> patents,
               score |-> score,
               outcome |-> IF ~has_source THEN "AttributeError"
                           ELSE IF ok THEN "returned" ELSE "ValidationError",
               signals |->
                 IF ok
                 THEN <<ExternalSignal(company_id, SignalCategory.INNOVATION_ACTIVITY,
                          "lens", n_ai, score, InnovationConfidence,
                          [total_patents |-> Length(patents), ai_patents |-> n_ai,
                           recent_ai_patents |-> n_recent_ai,
                           ai_categories |-> categories])>>
                 ELSE <<>>]

(***************************************************************************)
(* TechStackCollector (tech_signals.py)                                    *)
(***************************************************************************)
\* the category labels of AI_TECHNOLOGIES, and fetch_tech_stack's "other"
TechCategoryNames == <<"cloud_ml", "ml_framework", "data_platform", "ai_api", "other">>

TechRunCounts == {0, 1, MaxRun, ManyItems}

\* A technology list: per category a run of AI technologies, then a run of others.
TechLists ==
    { [i \in 1..(Len(TechCategoryNames) + 1) |->
         IF i <= Len(TechCategoryNames)
         THEN [item |-> [category |-> TechCategoryNames[i], is_ai_related |-> TRUE],
               count |-> f[i]]
         ELSE [item |-> [category |-> "other", is_ai_related |-> FALSE], count |-> n]] :
        f \in [1..Len(TechCategoryNames) -> TechRunCounts], n \in TechRunCounts }

CategoryOf(t) == {t.category}

\* line 126: min(len(ai_techs) * 10, 50), in tenths
TechScore(n_ai_techs) == Min(n_ai_techs * 100, 500)

\* line 127: min(len(categories_found) * 12.5, 50), in tenths
CategoryScore(n_categories) == Min(n_categories * 125, 500)

\* line 134: source=SignalSource.BUILTWITH
DigitalSourceMember == "BUILTWITH"

\* line 138: confidence=0.85, in hundredths
DigitalConfidence == 85

\* analyze_tech_stack(company_id, technologies)
AnalyzeTechStack ==
    /\ call = NoCall
    /\ UNCHANGED notScore
    /\ \E company_id \in CompanyIds, technologies \in TechLists :
        LET n_ai_techs == CountWhere(technologies, IsAiRelated)
            categories_found == UnionWhere(technologies, IsAiRelated, CategoryOf)
            score == TechScore(n_ai_techs) + CategoryScore(Cardinality(categories_found))
            has_source == SignalSourceHas(DigitalSourceMember)
            ok == has_source /\ ExternalSignalValid(company_id, score, DigitalConfidence)
        IN  call' =
              [op |-> "analyze_tech_stack",
               observations |-> Length(technologies),
               input |-> technologies,
               score |-> score,
               outcome |-> IF ~has_source THEN "AttributeError"
                           ELSE IF ok THEN "returned" ELSE "ValidationError",
               signals |->
                 IF ok
                 THEN <<ExternalSignal(company_id, SignalCategory.DIGITAL_PRESENCE,
                          "builtwith", n_ai_techs, score, DigitalConfidence,
                          [ai_technologies |-> n_ai_techs, categories |-> categories_found,
                           total_technologies |-> Length(technologies)])>>
                 ELSE <<>>]

(***************************************************************************)
(* LeadershipSignalCollector (leadership_signals.py)                       *)
(***************************************************************************)
LEADERSHIP_KEYWORDS ==
    <<"executive", "ceo", "chief", "cfo", "cto", "board", "leadership", "management",
      "officer", "president", "director", "governance">>

COMMITMENT_KEYWORDS ==
    <<"ai", "artificial intelligence", "digital", "technology", "transformation",
      "innovation", "data", "automation", "machine learning", "cloud">>

FirstOf(kws, k) == { kws[i] : i \in 1..k }

\* A text is the set of keywords that occur in text.lower() as substrings.
LeadershipTexts ==
    { [leadership |-> FirstOf(LEADERSHIP_KEYWORDS, k), commitment |-> FirstOf(COMMITMENT_KEYWORDS, j)] :
        k \in 0..Len(LEADERSHIP_KEYWORDS), j \in 0..Len(COMMITMENT_KEYWORDS) }

\* a dimension without its cap of 50
DimensionScoreNoCap(count) == count * 8

\* lines 137-138: min(count * 8, 50)
DimensionScore(count) == Min(count * 8, 50)

\* lines 132-139 and 147: round(min(leadership_score + commitment_score, 100.0), 1), in tenths
LeadershipScore(text) ==
    10 * Min(DimensionScore(Cardinality(text.leadership))
             + DimensionScore(Cardinality(text.commitment)), 100)

\* _score_leadership_text(text)
ScoreLeadershipText ==
    /\ call = NoCall
    /\ UNCHANGED notScore
    /\ \E text \in LeadershipTexts :
        call' =
          [op |-> "_score_leadership_text",
           observations |-> 1,
           input |-> text,
           score |-> LeadershipScore(text),
           outcome |-> "returned",
           signals |-> <<>>]

\* line 27: minimum chars to accept a page
MIN_TEXT_LENGTH == 80

\* len(k) of the keywords, in list order
LeadershipKeywordLen == <<9, 3, 5, 3, 3, 5, 10, 10, 7, 9, 8, 10>>
CommitmentKeywordLen == <<2, 23, 7, 10, 14, 10, 4, 10, 16, 5>>

\* characters that suffice for a text holding the first k and the first j keywords
KeywordChars(k, j) ==
    SumSeq(SubSeq(LeadershipKeywordLen, 1, k)) + SumSeq(SubSeq(CommitmentKeywordLen, 1, j))

\* len(text) of the texts handed to analyze_leadership: empty, one character,
\* just below and at MIN_TEXT_LENGTH, and a long page
TextLengths == {0, 1, MIN_TEXT_LENGTH - 1, MIN_TEXT_LENGTH, 200}

\* website_data / linkedin_data: None, or a dict whose "text" has `length`
\* characters and holds the given keywords as substrings of text.lower()
NoData == [present |-> FALSE, length |-> 0, leadership |-> {}, commitment |-> {}]

SourceData ==
    {NoData} \cup
    { [present |-> TRUE, length |-> n,
       leadership |-> FirstOf(LEADERSHIP_KEYWORDS, k),
       commitment |-> FirstOf(COMMITMENT_KEYWORDS, j)] :
        <<n, k, j>> \in { t \in TextLengths \X {0, 3, Len(LEADERSHIP_KEYWORDS)}
                                           \X {0, 2, Len(COMMITMENT_KEYWORDS)} :
                            KeywordChars(t[2], t[3]) <= t[1] } }

\* HasText without the test of the text: any dict counts as data
HasTextAnyDict(data) == data.present

\* lines 162 and 178: `data and data.get("text")`
HasText(data) == data.present /\ data.length > 0

\* confidence of the website and of the LinkedIn signal, in hundredths
WebsiteConfidence == 75
LinkedinConfidence == 80

\* ExternalSignalCreate(...) as analyze_leadership builds it
ExternalSignalCreate(company_id, category, source, raw_value, normalized_score, confidence, metadata) ==
    [company_id |-> company_id, category |-> category, source |-> source,
     raw_value |-> raw_value, normalized_score |-> normalized_score,
     confidence |-> confidence, metadata |-> metadata]

\* lines 162-176 and 178-191: the signal appended for one source with text
LeadershipSignal(company_id, source, confidence, data) ==
    ExternalSignalCreate(company_id, SignalCategory.LEADERSHIP_SIGNALS, source,
        <<Cardinality(data.leadership), Cardinality(data.commitment)>>,
        LeadershipScore(data), confidence,
        [leadership_keyword_count |-> Cardinality(data.leadership),
         commitment_keyword_count |-> Cardinality(data.commitment),
         text_length |-> data.length])

\* analyze_leadership(company_id, website_data, linkedin_data)
AnalyzeLeadership ==
    /\ call = NoCall
    /\ UNCHANGED notScore
    /\ \E company_id \in CompanyIds, website_data \in SourceData, linkedin_data \in SourceData :
        LET from_website ==
                IF HasText(website_data)
                THEN <<LeadershipSignal(company_id, "company_website", WebsiteConfidence,
                                        website_data)>>
                ELSE <<>>
            from_linkedin ==
                IF HasText(linkedin_data)
                THEN <<LeadershipSignal(company_id, "linkedin", LinkedinConfidence,
                                        linkedin_data)>>
                ELSE <<>>
        IN  call' =
              [op |-> "analyze_leadership",
               observations |-> Len(from_website) + Len(from_linkedin),
               input |-> [company_id |-> company_id, website_data |-> website_data,
                          linkedin_data |-> linkedin_data],
               score |-> 0,
               outcome |-> "returned",
               signals |-> from_website \o from_linkedin]

(***************************************************************************)
(* fetch_patents (patent_signals.py), fetch_tech_stack (tech_signals.py)   *)
(***************************************************************************)
\* api_key / domain arguments: None, empty, blank, or a value
ApiKeys == {None, "", " ", "key"}
Domains == {"", " ", "example.com"}

\* `not s or not s.strip()`
Blank(s) == s \in {None, "", " "}

\* what the provider does with the request
ProviderResponses ==
    {"connect_error", "http_error", "not_json", "malformed", "provider_error", "ok"}

\* number of items in the payload of an "ok" response
PayloadItems == 0..2

\* the exception the body of the try block raises on a response, or "none":
\* client.post/get, raise_for_status, r.json(), data.get on a non-dict
RaisedBy(response) ==
    CASE response = "connect_error" -> "ConnectError"
      [] response = "http_error" -> "HTTPStatusError"
      [] response = "not_json" -> "JSONDecodeError"
      [] response = "malformed" -> "AttributeError"
      [] OTHER -> "none"

\* a handler for HTTP status errors only
CaughtHttpOnly(exception) == exception = "HTTPStatusError"

\* `except Exception`: every exception the try block raises is caught
Caught(exception) == exception # "none"

\* the record of a fetch call; observations is the length of the list returned
FetchCall(op, args, outcome, n) ==
    [op |-> op, observations |-> n, input |-> args, score |-> 0, outcome |-> outcome,
     signals |-> <<>>]

\* fetch_patents(company_name, api_key)
FetchPatents ==
    /\ call = NoCall
    /\ UNCHANGED notScore
    /\ \E api_key \in ApiKeys, response \in ProviderResponses \ {"provider_error"},
          items \in PayloadItems :
        LET args == [api_key |-> api_key, domain |-> "", response |-> response,
                     items |-> items]
            exception == RaisedBy(response)
        IN  call' =
              IF Blank(api_key) THEN FetchCall("fetch_patents", args, "returned", 0)
              ELSE IF exception # "none"
                   THEN IF Caught(exception)
                        THEN FetchCall("fetch_patents", args, "returned", 0)
                        ELSE FetchCall("fetch_patents", args, exception, 0)
                   ELSE FetchCall("fetch_patents", args, "returned", items)

\* fetch_tech_stack(domain, api_key)
FetchTechStack ==
    /\ call = NoCall
    /\ UNCHANGED notScore
    /\ \E api_key \in ApiKeys, domain \in Domains, response \in ProviderResponses,
          items \in PayloadItems :
        LET args == [api_key |-> api_key, domain |-> domain, response |-> response,
                     items |-> items]
            exception == RaisedBy(response)
        IN  call' =
              IF Blank(api_key) \/ Blank(domain)
              THEN FetchCall("fetch_tech_stack", args, "returned", 0)
              ELSE IF exception # "none"
                   THEN IF Caught(exception)
                        THEN FetchCall("fetch_tech_stack", args, "returned", 0)
                        ELSE FetchCall("fetch_tech_stack", args, exception, 0)
                   ELSE IF response = "provider_error"
                        THEN FetchCall("fetch_tech_stack", args, "returned", 0)
                        ELSE FetchCall("fetch_tech_stack", args, "returned", items)

(***************************************************************************)
(* DocumentParser.parse_filing (document_parser.py)                        *)
(***************************************************************************)
\* file_path.suffix of the files handed to parse_filing
Suffixes == {".pdf", ".PDF", ".htm", ".HTM", ".html", ".Html", ".txt", ".TXT",
             ".doc", ".xml", ".pdfx", ""}

\* str.lower() without the case folding
LowerIdentity(s) == s

\* line 50: str.lower() on these suffixes
Lower(s) ==
    CASE s = ".PDF" -> ".pdf"
      [] s = ".HTM" -> ".htm"
      [] s = ".Html" -> ".html"
      [] s = ".TXT" -> ".txt"
      [] OTHER -> s

\* _parse_pdf / _parse_html either give the text or fail on the file
ReaderResults == {"text", "OSError"}

\* parse_filing(file_path, ticker)
ParseFiling ==
    /\ call = NoCall
    /\ UNCHANGED notScore
    /\ \E file_suffix \in Suffixes, read \in ReaderResults :
        LET suffix == Lower(file_suffix)
            reader == IF suffix = ".pdf" THEN "_parse_pdf"
                      ELSE IF suffix \in {".htm", ".html", ".txt"} THEN "_parse_html"
                      ELSE "none"
            outcome == IF reader = "none" THEN "ValueError: Unsupported file type"
                       ELSE IF read = "text" THEN "returned" ELSE read
        IN  call' =
              [op |-> "parse_filing",
               observations |-> IF reader = "none" THEN 0 ELSE 1,   \* calls of a reader
               input |-> [suffix |-> file_suffix, reader |-> reader],
               score |-> 0,
               outcome |-> outcome,
               signals |-> IF outcome = "returned" THEN <<[source_path |-> file_suffix]>>
                           ELSE <<>>]

(***************************************************************************)
(* DocumentParser._extract_sections (document_parser.py)                   *)
(*                                                                         *)
(* A text is a sequence of segments [kind, len]: "text" is len characters  *)
(* that match nothing and keep their length in upper case, "wide" is len   *)
(* characters that upper-case to two characters each (such as the ligature *)
(* U+FB01 or U+00DF), a section name is one heading matching that name's   *)
(* pattern, and "item" is a numbered-item marker that is no heading.       *)
(***************************************************************************)
MaxSegments == 4       \* a text has at most MaxSegments segments

\* _extract_sections line 205: the search for the next item starts here
NextItemSkip == 100
\* line 207: [:50000]
MaxSectionChars == 50000
\* "ITEM 1. BUSINESS" and "ITEM 2"
HeadingChars == 16
MarkerChars == 6

TextLens == {1, NextItemSkip - HeadingChars, MaxSectionChars}
HeadingKinds == {"item_1", "item_7"}

Segments ==
    { [kind |-> "text", len |-> n] : n \in TextLens }
    \cup { [kind |-> "wide", len |-> 1] }
    \cup { [kind |-> h, len |-> HeadingChars] : h \in HeadingKinds }
    \cup { [kind |-> "item", len |-> MarkerChars] }

RECURSIVE Texts(_)
Texts(k) ==
    IF k = 0 THEN { <<>> }
    ELSE Texts(k - 1) \cup { Append(t, s) : t \in { u \in Texts(k - 1) : Len(u) = k - 1 }, s \in Segments }

Contents == Texts(MaxSegments)

\* upper-casing that keeps every character's length
UpperSameLength(text) == text

\* str.upper(): a wide character becomes two characters
Upper(text) ==
    [k \in 1..Len(text) |->
        [kind |-> text[k].kind,
         len |-> IF text[k].kind = "wide" THEN 2 * text[k].len ELSE text[k].len]]

\* len(text)
RECURSIVE Chars(_)
Chars(text) == IF text = <<>> THEN 0 ELSE Head(text).len + Chars(Tail(text))

\* the offset at which segment k of the text starts
Offset(text, k) == Chars(SubSeq(text, 1, k - 1))

Least(S) == CHOOSE k \in S : \A j \in S : k <= j

\* re.search(SECTION_PATTERNS[name], text): the segment matched, 0 for None
SearchHeading(text, name) ==
    LET S == { k \in 1..Len(text) : text[k].kind = name }
    IN  IF S = {} THEN 0 ELSE Least(S)

\* r"ITEM\s*\d" matches at the start of a marker and of every heading
IsItem(seg) == seg.kind = "item" \/ seg.kind \in { SectionNames[i] : i \in 1..Len(SectionNames) }

\* re.search(r"ITEM\s*\d", text[from:]): the segment matched, 0 for None
SearchItem(text, from) ==
    LET S == { k \in 1..Len(text) : IsItem(text[k]) /\ Offset(text, k) >= from }
    IN  IF S = {} THEN 0 ELSE Least(S)

\* content[start:end][:50000] as the span of content it covers
SliceSpan(start, end, n) ==
    LET lo == Min(start, n)
        hi == Max(Min(end, n), lo)
    IN  [lo |-> lo, hi |-> Min(hi, lo + MaxSectionChars)]

\* _extract_sections lines 200-207 for one section name
ExtractSection(content, section_name) ==
    LET content_upper == Upper(content)
        match == SearchHeading(content_upper, section_name)
        start == Offset(content_upper, match)
        next_item == SearchItem(content_upper, start + NextItemSkip)
        end == IF next_item # 0 THEN Offset(content_upper, next_item) ELSE Chars(content)
        span == SliceSpan(start, end, Chars(content))
    IN  [name |-> section_name, lo |-> span.lo, hi |-> span.hi]

\* _extract_sections(content): the items of the dict, in SECTION_PATTERNS order
ExtractSections(content) ==
    LET found(i) == SearchHeading(Upper(content), SectionNames[i]) # 0
        all == [i \in 1..Len(SectionNames) |-> ExtractSection(content, SectionNames[i])]
        RECURSIVE Items(_)
        Items(i) == IF i > Len(SectionNames) THEN <<>>
                    ELSE (IF found(i) THEN <<all[i]>> ELSE <<>>) \o Items(i + 1)
    IN  Items(1)

ExtractSectionsCall ==
    /\ call = NoCall
    /\ UNCHANGED notScore
    /\ \E content \in Contents :
        call' = [op |-> "_extract_sections",
                 observations |-> Len(content),
                 input |-> content,
                 score |-> 0,
                 outcome |-> "returned",
                 signals |-> ExtractSections(content)]

ScoreIdle == call = NoCall
ScoreInit == call = NoCall

ScoreNext ==
    \/ AnalyzeJobPostings
    \/ AnalyzePatents
    \/ AnalyzeTechStack
    \/ ScoreLeadershipText
    \/ AnalyzeLeadership
    \/ FetchPatents
    \/ FetchTechStack
    \/ ParseFiling
    \/ ExtractSectionsCall

(***************************************************************************)
(* CompanySignalSummary (models/signal.py)                                 *)
(* Category scores are in tenths of a point.  composite_score is kept      *)
(* times CompositeScale, so that the weighted sum is an integer.           *)
(***************************************************************************)
CompositeScale == 100

\* calculate_composite lines 61-66: 0.30*h + 0.25*i + 0.25*d + 0.20*l, times CompositeScale
WeightedComposite(h, i, d, l) == 30 * h + 25 * i + 25 * d + 20 * l

\* Field(ge=0, le=100) on the four category scores and on composite_score
SummaryFieldsValid(h, i, d, l, c) ==
    \A x \in {h, i, d, l, c} : ScoreLow <= x /\ x <= ScoreHigh

\* the values a caller passes to the constructor, some of them out of range
ScoreInputs == {-1, 0, 500, 1000, 1001}
\* the values a caller assigns to a field of a constructed object
AssignedScores == {0, 500, 1000}
CategoryFields ==
    {"technology_hiring_score", "innovation_activity_score", "digital_presence_score",
     "leadership_signals_score"}

NoObject ==
    [constructed |-> FALSE, last_op |-> "none",
     technology_hiring_score |-> 0, innovation_activity_score |-> 0,
     digital_presence_score |-> 0, leadership_signals_score |-> 0,
     composite_score |-> 0, supplied_composite |-> 0]

\* the validator's assignment: does the after-validator overwrite the supplied value
ValidatedCompositeKeepSupplied(h, i, d, l, c) == c * CompositeScale
ValidatedComposite(h, i, d, l, c) == WeightedComposite(h, i, d, l)

\* CompanySignalSummary(...): field validation, then the mode='after' validator
ConstructSummary ==
    /\ summary = NoObject
    /\ UNCHANGED notSummary
    /\ \E h \in ScoreInputs, i \in ScoreInputs, d \in ScoreInputs, l \in ScoreInputs,
       c \in ScoreInputs :
        summary' =
          IF SummaryFieldsValid(h, i, d, l, c)
          THEN [constructed |-> TRUE, last_op |-> "construct",
                technology_hiring_score |-> h, innovation_activity_score |-> i,
                digital_presence_score |-> d, leadership_signals_score |-> l,
                composite_score |-> ValidatedComposite(h, i, d, l, c),
                supplied_composite |-> c]
          ELSE [NoObject EXCEPT !.last_op = "ValidationError"]

\* what an attribute assignment does to composite_score: the model has no
\* validate_assignment, so the validator does not run again
CompositeAfterAssign(obj) == obj.composite_score

\* summary.<field> = v on a constructed object
AssignCategoryScore ==
    /\ summary.constructed
    /\ UNCHANGED notSummary
    /\ \E f \in CategoryFields, v \in AssignedScores :
         LET assigned == [summary EXCEPT ![f] = v, !.last_op = "assign"]
         IN  summary' = [assigned EXCEPT !.composite_score = CompositeAfterAssign(assigned)]

SummaryIdle == summary = NoObject
SummaryInit == summary = NoObject

SummaryNext ==
    \/ ConstructSummary
    \/ AssignCategoryScore

(***************************************************************************)
(* Warehouse tables (services/snowflake.py) and the reports.               *)
(* A FLOAT column holds an exact rational [num, den] of tenths of a point.  *)
(***************************************************************************)
MaxSignals == 3        \* at most MaxSignals rows in external_signals
MaxRows == 3           \* at most MaxRows rows in documents, document_chunks and external_signals together

RECURSIVE GCD(_, _)
GCD(a, b) == IF b = 0 THEN a ELSE GCD(b, a % b)

Rat(n, d) == LET g == GCD(n, d) IN [num |-> n \div g, den |-> d \div g]
RatLeq(x, y) == x.num * y.den <= y.num * x.den

\* the companies of TARGET_COMPANIES, and their tickers
StoreCompanies == {"c1", "c2"}
Ticker(company_id) ==
    IF company_id = "c1" THEN "CAT" ELSE IF company_id = "c2" THEN "DE" ELSE "UNKNOWN"

CategoryValues ==
    {SignalCategory.TECHNOLOGY_HIRING, SignalCategory.INNOVATION_ACTIVITY,
     SignalCategory.DIGITAL_PRESENCE, SignalCategory.LEADERSHIP_SIGNALS}

\* normalized scores of stored signals, in tenths
StoredScores == {335, 1000}

NoRow == <<>>

\* no call yet
NoDbCall == [op |-> "none", key |-> "none", wrote |-> 0, returned |-> 0]

StoredRows == Len(documents) + Len(document_chunks) + Len(external_signals)

\* ids are uuid4 values: a fresh one differs from every id in the table
FreshId(table) == Len(table) + 1

(***************************************************************************)
(* insert_document, insert_chunks.  A single failed write leaves its table *)
(* as it was, like no call; insert_chunks writes row by row and can fail   *)
(* between two rows.                                                       *)
(***************************************************************************)
ContentHashes == {"h1", "h2"}

\* the chunk lists of a chunking run, as their chunk_index values
ChunkLists == {<<>>, <<0>>, <<0, 1>>}

\* the lookup finding no row, whatever the table holds
ExistingDocumentNone(content_hash) == <<>>

\* lines 148-151: SELECT id FROM documents WHERE content_hash = %s
ExistingDocument(content_hash) ==
    SelectSeq(documents, LAMBDA r : r.content_hash = content_hash)

\* insert_document(doc): the id of the row with doc's content_hash, or a new row
InsertDocument ==
    /\ \E content_hash \in ContentHashes :
         LET existing == ExistingDocument(content_hash)
             doc_id == FreshId(documents)
         IN  IF existing # <<>>
             THEN /\ documents' = documents
                  /\ db_call' = [op |-> "insert_document", key |-> content_hash, wrote |-> 0,
                                 returned |-> existing[1].id]
             ELSE /\ StoredRows < MaxRows
                  /\ documents' = Append(documents, [id |-> doc_id, content_hash |-> content_hash])
                  /\ db_call' = [op |-> "insert_document", key |-> content_hash, wrote |-> 1,
                                 returned |-> doc_id]
    /\ UNCHANGED <<companies, document_chunks, external_signals, company_signal_summaries, report, notStore>>

\* lines 186-189: SELECT count(*) FROM document_chunks WHERE document_id = %s
ChunkCount(document_id) ==
    Len(SelectSeq(document_chunks, LAMBDA r : r.document_id = document_id))

\* lines 202-213: the row of chunk c of the list.  list_len is no column: it
\* remembers the length of the list the row was written from
ChunkRow(document_id, chunk_list, c) ==
    [document_id |-> document_id, chunk_index |-> chunk_list[c], list_len |-> Len(chunk_list)]

\* insert_chunks(document_id, chunks): nothing for an empty list or a document
\* that has chunk rows; else one INSERT per chunk, the first `written` of which
\* succeed
InsertChunks ==
    /\ \E k \in 1..Len(documents), chunk_list \in ChunkLists :
         LET document_id == documents[k].id
             skip == chunk_list = <<>> \/ ChunkCount(document_id) > 0
         IN  IF skip
             THEN /\ document_chunks' = document_chunks
                  /\ db_call' = [op |-> "insert_chunks", key |-> document_id, wrote |-> 0,
                                 returned |-> Len(chunk_list)]
             ELSE /\ StoredRows + Len(chunk_list) <= MaxRows
                  /\ \E written \in 0..Len(chunk_list) :
                       /\ document_chunks' =
                            document_chunks \o
                            [c \in 1..written |->
                               ChunkRow(document_id, chunk_list, c)]
                       /\ db_call' = [op |-> "insert_chunks", key |-> document_id,
                                      wrote |-> written, returned |-> Len(chunk_list)]
    /\ UNCHANGED <<companies, documents, external_signals, company_signal_summaries, report, notStore>>

(***************************************************************************)
(* insert_signal, update_signal_summary                                    *)
(***************************************************************************)
\* the signals a collection run may hold: any category and score for c1, one
\* hiring signal for c2
SignalPayloads ==
    { [company_id |-> "c1", category |-> c, normalized_score |-> s] :
        c \in CategoryValues, s \in StoredScores }
    \cup {[company_id |-> "c2", category |-> SignalCategory.TECHNOLOGY_HIRING,
           normalized_score |-> 1000]}

\* a signal object: a new one (fresh id), or one that was inserted before
SignalObjects ==
    { [id |-> FreshId(external_signals), company_id |-> x.company_id,
       category |-> x.category, normalized_score |-> x.normalized_score] :
        x \in { y \in SignalPayloads : y.company_id \in companies } }
    \cup { external_signals[k] : k \in 1..Len(external_signals) }

\* insert_signal(signal): nothing when a row with signal.id exists, else a new row
InsertSignal ==
    /\ \E signal \in SignalObjects :
         LET existing == \E k \in 1..Len(external_signals) : external_signals[k].id = signal.id
         IN  IF existing
             THEN /\ external_signals' = external_signals
                  /\ db_call' = [op |-> "insert_signal", key |-> signal.company_id,
                                 wrote |-> 0, returned |-> 0]
             ELSE /\ Len(external_signals) < MaxSignals
                  /\ StoredRows < MaxRows
                  /\ external_signals' = Append(external_signals, signal)
                  /\ db_call' = [op |-> "insert_signal", key |-> signal.company_id,
                                 wrote |-> 1, returned |-> 0]
    /\ UNCHANGED <<companies, documents, document_chunks, company_signal_summaries, report, notStore>>

\* update_signal_summary lines 252-253: the company's signals
SignalsOf(company_id) ==
    SelectSeq(external_signals, LAMBDA s : s.company_id = company_id)

\* lines 259-276: the average normalized_score of a category, 0.0 when it has no signal
CategoryAverage(signals, category) ==
    LET of == SelectSeq(signals, LAMBDA s : s.category = category)
        total == SumSeq([k \in 1..Len(of) |-> of[k].normalized_score])
    IN  IF Len(of) > 0 THEN Rat(total, Len(of)) ELSE Rat(0, 1)

\* lines 279-284: 0.30*hiring + 0.25*innovation + 0.25*digital + 0.20*leadership
StoredComposite(h, i, d, l) ==
    Rat(30 * h.num * i.den * d.den * l.den + 25 * i.num * h.den * d.den * l.den
        + 25 * d.num * h.den * i.den * l.den + 20 * l.num * h.den * i.den * d.den,
        100 * h.den * i.den * d.den * l.den)

\* lines 292-311: MERGE INTO company_signal_summaries ... ON target.company_id =
\* source.company_id.  Every matching row gets the seven SET columns (ticker is
\* not among them); without a match the INSERT row is appended.
MergeAppendOnly(table, row) == Append(table, row)
Merge(table, row) ==
    IF \E k \in 1..Len(table) : table[k].company_id = row.company_id
    THEN [k \in 1..Len(table) |->
            IF table[k].company_id = row.company_id
            THEN [row EXCEPT !.ticker = table[k].ticker]
            ELSE table[k]]
    ELSE Append(table, row)

\* lines 258-329: the row update_signal_summary writes from the signals it read
SummaryRow(company_id, signals) ==
    LET h == CategoryAverage(signals, SignalCategory.TECHNOLOGY_HIRING)
        i == CategoryAverage(signals, SignalCategory.INNOVATION_ACTIVITY)
        d == CategoryAverage(signals, SignalCategory.DIGITAL_PRESENCE)
        l == CategoryAverage(signals, SignalCategory.LEADERSHIP_SIGNALS)
    IN  [company_id |-> company_id, ticker |-> Ticker(company_id),
         technology_hiring_score |-> h,
         innovation_activity_score |-> i,
         digital_presence_score |-> d,
         leadership_signals_score |-> l,
         composite_score |-> StoredComposite(h, i, d, l),
         signal_count |-> Len(signals)]

\* update_signal_summary: read the signals, MERGE the company's summary row
UpdateSignalSummary ==
    /\ \E company_id \in companies :
         LET signals == SignalsOf(company_id)
             row == SummaryRow(company_id, signals)
         IN  IF signals = <<>>
             THEN /\ company_signal_summaries' = company_signal_summaries
                  /\ db_call' = [op |-> "update_signal_summary", key |-> company_id,
                                 wrote |-> 0, returned |-> 0]
             ELSE /\ company_signal_summaries' = Merge(company_signal_summaries, row)
                  /\ db_call' = [op |-> "update_signal_summary", key |-> company_id,
                                 wrote |-> 1, returned |-> 0]
    /\ UNCHANGED <<companies, documents, document_chunks, external_signals, report, notStore>>

\* the tickers, in ORDER BY order
TickerOrder == <<"CAT", "DE", "UNKNOWN">>

\* SELECT ... FROM company_signal_summaries s ... ORDER BY s.ticker
RECURSIVE SummaryRows(_)
SummaryRows(tickers) ==
    IF tickers = <<>> THEN <<>>
    ELSE SelectSeq(company_signal_summaries, LAMBDA r : r.ticker = Head(tickers))
         \o SummaryRows(Tail(tickers))

\* report.py lines 11-13: 0.30/0.80, 0.25/0.80, 0.25/0.80
W_DEN == 80
\* the hiring weight left at 0.30 of the four-category sum
W_TECH_NotRenormalized == (30 * W_DEN) \div 100
W_TECH_HIRING == 30
W_INNOVATION == 25
W_DIGITAL == 25

\* report.py lines 55-58:
\* round(W_TECH_HIRING * th + W_INNOVATION * ia + W_DIGITAL * dp, 1), in tenths
CompositeWithoutLeadership(th, ia, dp) ==
    RoundHalfEven(
        W_TECH_HIRING * th.num * ia.den * dp.den + W_INNOVATION * ia.num * th.den * dp.den
        + W_DIGITAL * dp.num * th.den * ia.den,
        W_DEN * th.den * ia.den * dp.den)

\* CompanyReportRow: Field(ge=0, le=100) on the three scores and on the composite
ReportRowValid(th, ia, dp, composite) ==
    /\ \A x \in {th, ia, dp} : RatLeq(Rat(ScoreLow, 1), x) /\ RatLeq(x, Rat(ScoreHigh, 1))
    /\ ScoreLow <= composite /\ composite <= ScoreHigh

ReportRow(r) ==
    [ticker |-> r.ticker,
     technology_hiring_score |-> r.technology_hiring_score,
     innovation_activity_score |-> r.innovation_activity_score,
     digital_presence_score |-> r.digital_presence_score,
     composite_score_without_leadership |->
        CompositeWithoutLeadership(r.technology_hiring_score,
                                   r.innovation_activity_score,
                                   r.digital_presence_score),
     signal_count |-> r.signal_count]

ReportRows == LET rows == SummaryRows(TickerOrder)
              IN  [k \in 1..Len(rows) |-> ReportRow(rows[k])]

\* generate_report.py lines 22-24: W_TECH, W_INNOVATION, W_DIGITAL over 0.80
W_TECH == 30
ScriptW_INNOVATION == 25
ScriptW_DIGITAL == 25

\* the plain mean of the three scores
ScriptCompositeUnweighted(th, ia, dp) ==
    RoundHalfEven(th.num * ia.den * dp.den + ia.num * th.den * dp.den + dp.num * th.den * ia.den,
                  3 * th.den * ia.den * dp.den)

\* generate_report.py line 58: round(W_TECH * th + W_INNOVATION * ia + W_DIGITAL * dp, 1)
ScriptComposite(th, ia, dp) ==
    RoundHalfEven(
        W_TECH * th.num * ia.den * dp.den + ScriptW_INNOVATION * ia.num * th.den * dp.den
        + ScriptW_DIGITAL * dp.num * th.den * ia.den,
        W_DEN * th.den * ia.den * dp.den)

\* generate_report.py lines 59-67: the table row; its composite is kept under
\* the same field name as the API row's
ScriptRow(r) ==
    [ticker |-> r.ticker,
     technology_hiring_score |-> r.technology_hiring_score,
     innovation_activity_score |-> r.innovation_activity_score,
     digital_presence_score |-> r.digital_presence_score,
     composite_score_without_leadership |->
        ScriptComposite(r.technology_hiring_score,
                        r.innovation_activity_score,
                        r.digital_presence_score),
     signal_count |-> r.signal_count]

ScriptRows == LET rows == SummaryRows(TickerOrder)
              IN  [k \in 1..Len(rows) |-> ScriptRow(rows[k])]

\* GET /api/v1/report: get_external_signals_report
ApiReport ==
    /\ LET rows == ReportRows
           ok == \A k \in 1..Len(rows) :
                    ReportRowValid(rows[k].technology_hiring_score,
                                   rows[k].innovation_activity_score,
                                   rows[k].digital_presence_score,
                                   rows[k].composite_score_without_leadership)
       IN  report' = [by |-> "api",
                      outcome |-> IF ok THEN "returned" ELSE "ValidationError",
                      companies |-> IF ok THEN rows ELSE <<>>]
    /\ UNCHANGED <<companies, documents, document_chunks, external_signals,
                   company_signal_summaries, db_call, notStore>>

\* scripts/generate_report.py main(): no rows, no report files
ScriptReport ==
    /\ LET rows == ScriptRows
       IN  report' = [by |-> "script",
                      outcome |-> IF rows = <<>> THEN "no_summaries" ELSE "written",
                      companies |-> rows]
    /\ UNCHANGED <<companies, documents, document_chunks, external_signals,
                   company_signal_summaries, db_call, notStore>>

NoReport == [by |-> "none", outcome |-> "none", companies |-> <<>>]

\* the empty warehouse
EmptyTables ==
    /\ documents = <<>>
    /\ document_chunks = <<>>
    /\ external_signals = <<>>
    /\ company_signal_summaries = NoRow
    /\ db_call = NoDbCall
    /\ report = NoReport

\* a run for one company, nothing stored yet
StoreIdle ==
    /\ companies = {"c1"}
    /\ EmptyTables

StoreInit == StoreIdle

StoreNext ==
    \/ InsertSignal
    \/ UpdateSignalSummary
    \/ ApiReport
    \/ ScriptReport

\* a collection run for every company of TARGET_COMPANIES
PersistInit ==
    /\ companies = StoreCompanies
    /\ EmptyTables

\* the persistence calls of a collection run
PersistNext ==
    \/ InsertDocument
    \/ InsertChunks
    \/ InsertSignal
    \/ UpdateSignalSummary

(***************************************************************************)
(* SECEdgarPipeline._retry_with_backoff (sec_edgar.py)                     *)
(*                                                                         *)
(* edgar holds the pipeline object's counters and the position of the      *)
(* current call; results is the outcome of every invocation of func the    *)
(* call has made.  time.sleep and _wait_for_rate_limit only pass time.     *)
(***************************************************************************)
MaxRetries == 3        \* max_retries is drawn from -1..MaxRetries
MaxCalls == 2          \* _retry_with_backoff is called at most MaxCalls times

\* download_filings' default max_retries, _retry_with_backoff's initial_wait
DefaultMaxRetries == 3
InitialWait == 2

\* what one invocation of func does: it returns, or it raises an error whose
\* message holds "429" or "rate limit", or it raises another error
FuncOutcomes == {"returned", "rate_limit", "error"}

EdgarIdle ==
    edgar = [pc |-> "idle", calls |-> 0, max_retries |-> DefaultMaxRetries, attempt |-> 0,
             wait_time |-> <<InitialWait, 1>>, request_count |-> 0, rate_limit_hits |-> 0,
             entry_request_count |-> 0, entry_rate_limit_hits |-> 0,
             results |-> <<>>, raised |-> "none"]

\* one attempt more than range(max_retries) gives
InRangeInclusive(attempt, max_retries) == attempt <= max_retries

\* line 78: attempt in range(max_retries)
InRange(attempt, max_retries) == attempt < max_retries

\* line 89: "429" in error_msg or "rate limit" in error_msg
IsRateLimitError(outcome) == outcome = "rate_limit"

\* wait_time *= 2 (line 96) and wait_time *= 1.5 (line 106), as a fraction
Backoff(wait_time, rate_limited) ==
    IF rate_limited THEN <<2 * wait_time[1], wait_time[2]>>
    ELSE <<3 * wait_time[1], 2 * wait_time[2]>>

\* _retry_with_backoff(func, max_retries) entered (line 76)
RetryWithBackoff ==
    /\ edgar.pc \in {"idle", "returned", "raised"}
    /\ edgar.calls < MaxCalls
    /\ \E max_retries \in -1..MaxRetries :
        edgar' = [edgar EXCEPT !.pc = "for", !.calls = @ + 1, !.max_retries = max_retries,
                               !.attempt = 0, !.wait_time = <<InitialWait, 1>>,
                               !.entry_request_count = edgar.request_count,
                               !.entry_rate_limit_hits = edgar.rate_limit_hits,
                               !.results = <<>>, !.raised = "none"]
    /\ UNCHANGED notEdgar

\* lines 78-110: one pass of the for loop, func invoked once
Attempt ==
    /\ edgar.pc = "for"
    /\ InRange(edgar.attempt, edgar.max_retries)
    /\ \E outcome \in FuncOutcomes :
        LET invoked == [edgar EXCEPT !.results = Append(@, outcome)]
        IN  edgar' =
              IF outcome = "returned"
              THEN [invoked EXCEPT !.request_count = @ + 1, !.pc = "returned"]
              ELSE IF IsRateLimitError(outcome)
              THEN [invoked EXCEPT !.rate_limit_hits = @ + 1,
                                   !.wait_time = Backoff(@, TRUE), !.attempt = @ + 1]
              ELSE IF edgar.attempt < edgar.max_retries - 1
              THEN [invoked EXCEPT !.wait_time = Backoff(@, FALSE), !.attempt = @ + 1]
              ELSE [invoked EXCEPT !.pc = "raised", !.raised = outcome]
    /\ UNCHANGED notEdgar

\* line 112: the loop ran out
MaxRetriesExceeded ==
    /\ edgar.pc = "for"
    /\ ~InRange(edgar.attempt, edgar.max_retries)
    /\ edgar' = [edgar EXCEPT !.pc = "raised", !.raised = "Max retries exceeded"]
    /\ UNCHANGED notEdgar

EdgarNext ==
    \/ RetryWithBackoff
    \/ Attempt
    \/ MaxRetriesExceeded

(***************************************************************************)
(* Document collection: collect_documents (scripts/collect_evidence.py)    *)
(* and run_document_collection (routers/documents.py).                     *)
(*                                                                         *)
(* collect is the run: the path it takes, its position in the loop over    *)
(* the downloaded filings, the parsed document's content_hash, its chunk   *)
(* list (as chunk_index values) and the doc_id insert_document returned;   *)
(* last remembers what the iteration just finished did.                    *)
(***************************************************************************)
MaxFilings == 2        \* download_filings returns 1..MaxFilings paths

CollectionPaths == {"collect_documents", "run_document_collection"}

NoIteration ==
    [parsed |-> FALSE, stored |-> FALSE, doc_id |-> 0, chunks |-> <<>>, db_failed |-> FALSE]

CollectIdle ==
    collect = [path |-> "none", pc |-> "idle", filings |-> 0, content_hash |-> "none",
               chunks |-> <<>>, doc_id |-> 0, stored |-> FALSE, last |-> NoIteration]

\* the run has the downloaded filings and enters the loop over them
CollectInit ==
    \E path \in CollectionPaths, n \in 1..MaxFilings :
        collect = [path |-> path, pc |-> "for_filings", filings |-> n, content_hash |-> "none",
                   chunks |-> <<>>, doc_id |-> 0, stored |-> FALSE, last |-> NoIteration]

\* the end of the loop body or its except clause (log, continue): go on with
\* the next filing; db_failed tells whether a statement failed on the way
NextFiling(run, parsed, db_failed) ==
    [run EXCEPT !.pc = "for_filings", !.filings = @ - 1,
                !.last = [parsed |-> parsed, stored |-> run.stored, doc_id |-> run.doc_id,
                          chunks |-> run.chunks, db_failed |-> db_failed]]

\* parse_filing, chunk_document and DocumentRecord(...) for the next filing;
\* parse_filing may raise
CollectParse ==
    /\ collect.pc = "for_filings"
    /\ collect.filings > 0
    /\ \/ \E content_hash \in ContentHashes, chunk_list \in ChunkLists :
            collect' = [collect EXCEPT !.pc = "insert_document", !.content_hash = content_hash,
                                       !.chunks = chunk_list, !.doc_id = 0, !.stored = FALSE]
       \/ collect' = NextFiling([collect EXCEPT !.doc_id = 0, !.stored = FALSE,
                                                !.chunks = <<>>], FALSE, FALSE)
    /\ UNCHANGED <<storeVars, notCollect>>

\* await db.insert_document(doc_record); a failed statement raises
CollectInsertDocument ==
    /\ collect.pc = "insert_document"
    /\ LET existing == ExistingDocument(collect.content_hash)
       IN  \/ /\ existing # <<>>
              /\ documents' = documents
              /\ collect' = [collect EXCEPT !.pc = "insert_chunks", !.doc_id = existing[1].id]
           \/ /\ existing = <<>>
              /\ documents' = Append(documents, [id |-> FreshId(documents),
                                                 content_hash |-> collect.content_hash])
              /\ collect' = [collect EXCEPT !.pc = "insert_chunks",
                                            !.doc_id = FreshId(documents), !.stored = TRUE]
           \/ /\ documents' = documents
              /\ collect' = NextFiling(collect, TRUE, TRUE)
    /\ UNCHANGED <<companies, document_chunks, external_signals, company_signal_summaries,
                   db_call, report, notCollect>>

\* the arguments the path passes to insert_chunks(document_id, chunks):
\* collect_evidence.py line 98 passes two, documents.py line 78 one
InsertChunksArguments(path) == IF path = "collect_documents" THEN 2 ELSE 1

\* await db.insert_chunks(...): a call with an argument missing raises
\* TypeError before insert_chunks runs; else the rows are written one by one
\* and a failed statement raises after the rows before it are stored
CollectInsertChunks ==
    /\ collect.pc = "insert_chunks"
    /\ IF InsertChunksArguments(collect.path) < 2
       THEN /\ document_chunks' = document_chunks
            /\ collect' = NextFiling(collect, TRUE, FALSE)
       ELSE IF collect.chunks = <<>> \/ ChunkCount(collect.doc_id) > 0
       THEN /\ document_chunks' = document_chunks
            /\ collect' = NextFiling(collect, TRUE, FALSE)
       ELSE \E written \in 0..Len(collect.chunks) :
               /\ document_chunks' =
                     document_chunks \o
                     [c \in 1..written |->
                        ChunkRow(collect.doc_id, collect.chunks, c)]
               /\ collect' = NextFiling(collect, TRUE, written < Len(collect.chunks))
    /\ UNCHANGED <<companies, documents, external_signals, company_signal_summaries,
                   db_call, report, notCollect>>

\* the loop is over: return
CollectReturn ==
    /\ collect.pc = "for_filings"
    /\ collect.filings = 0
    /\ collect' = [collect EXCEPT !.pc = "done"]
    /\ UNCHANGED <<storeVars, notCollect>>

CollectNext ==
    \/ CollectParse
    \/ CollectInsertDocument
    \/ CollectInsertChunks
    \/ CollectReturn

(***************************************************************************)
(* Two signal-collection runs for one company (collect_signals in          *)
(* scripts/collect_evidence.py, run by two processes).  Every statement    *)
(* is committed on its own (SnowflakeService.cursor), so the statements of *)
(* the two runs interleave freely: the SELECT and the MERGE of              *)
(* update_signal_summary are two statements.                               *)
(***************************************************************************)
RunIds == {1, 2}
RunCompany == "c1"

\* the signals one run collected: one or two, of any category
RunSignals ==
    LET payloads == { [company_id |-> RunCompany, category |-> c, normalized_score |-> s] :
                        c \in {SignalCategory.TECHNOLOGY_HIRING, SignalCategory.LEADERSHIP_SIGNALS},
                        s \in StoredScores }
    IN  { <<p>> : p \in payloads } \cup { <<p, q>> : p \in payloads, q \in payloads }

NoRun == [pc |-> "idle", signals |-> <<>>, read |-> <<>>]

RunsIdle == runs = [r \in RunIds |-> NoRun]

\* both runs hold their signals and are about to store them (line 163)
RunsInit ==
    \E s1 \in RunSignals, s2 \in RunSignals :
        runs = [r \in RunIds |->
                  [pc |-> "insert_signal", signals |-> IF r = 1 THEN s1 ELSE s2, read |-> <<>>]]

\* collect_signals lines 163-164: await db.insert_signal(signal), the next one
RunInsertSignal(r) ==
    /\ runs[r].pc = "insert_signal"
    /\ LET signal == Head(runs[r].signals)
           rest == Tail(runs[r].signals)
       IN  /\ external_signals' =
                Append(external_signals,
                       [id |-> FreshId(external_signals), company_id |-> signal.company_id,
                        category |-> signal.category,
                        normalized_score |-> signal.normalized_score])
           /\ runs' = [runs EXCEPT ![r].signals = rest,
                                   ![r].pc = IF rest = <<>> THEN "select_signals"
                                             ELSE "insert_signal"]
    /\ UNCHANGED <<companies, documents, document_chunks, company_signal_summaries,
                   db_call, report, notRuns>>

\* update_signal_summary lines 252-256: SELECT the company's signals
RunSelectSignals(r) ==
    /\ runs[r].pc = "select_signals"
    /\ runs' = [runs EXCEPT ![r].read = SignalsOf(RunCompany),
                            ![r].pc = IF SignalsOf(RunCompany) = <<>> THEN "done" ELSE "merge"]
    /\ UNCHANGED <<storeVars, notRuns>>

\* update_signal_summary lines 258-330: the averages of what was read, MERGE
RunMergeSummary(r) ==
    /\ runs[r].pc = "merge"
    /\ company_signal_summaries' =
          Merge(company_signal_summaries, SummaryRow(RunCompany, runs[r].read))
    /\ runs' = [runs EXCEPT ![r].pc = "done"]
    /\ UNCHANGED <<companies, documents, document_chunks, external_signals,
                   db_call, report, notRuns>>

RunsNext ==
    \/ \E r \in RunIds : RunInsertSignal(r)
    \/ \E r \in RunIds : RunSelectSignals(r)
    \/ \E r \in RunIds : RunMergeSummary(r)

(***************************************************************************)
(* Specifications, one per subsystem; the other subsystems stay idle.      *)
(***************************************************************************)
InitChunk ==
    ChunkInit /\ ScoreIdle /\ SummaryIdle /\ StoreIdle /\ EdgarIdle /\ CollectIdle /\ RunsIdle

SpecChunk ==
    /\ InitChunk
    /\ [][ChunkNext]_vars

InitScore ==
    ChunkIdle /\ ScoreInit /\ SummaryIdle /\ StoreIdle /\ EdgarIdle /\ CollectIdle /\ RunsIdle

InitChunkAny ==
    ChunkInitAny /\ ScoreIdle /\ SummaryIdle /\ StoreIdle /\ EdgarIdle /\ CollectIdle /\ RunsIdle

\* the chunker runs on: a call that can take a step takes it
SpecChunkLive ==
    /\ InitChunkAny
    /\ [][ChunkNext]_vars
    /\ WF_vars(ChunkNext)

SpecScore ==
    /\ InitScore
    /\ [][ScoreNext]_vars

InitSummary ==
    ChunkIdle /\ ScoreIdle /\ SummaryInit /\ StoreIdle /\ EdgarIdle /\ CollectIdle /\ RunsIdle

SpecSummary ==
    /\ InitSummary
    /\ [][SummaryNext]_vars

InitStore ==
    ChunkIdle /\ ScoreIdle /\ SummaryIdle /\ StoreInit /\ EdgarIdle /\ CollectIdle /\ RunsIdle

SpecStore ==
    /\ InitStore
    /\ [][StoreNext]_vars

InitPersist ==
    ChunkIdle /\ ScoreIdle /\ SummaryIdle /\ PersistInit /\ EdgarIdle /\ CollectIdle /\ RunsIdle

SpecPersist ==
    /\ InitPersist
    /\ [][PersistNext]_vars

InitEdgar ==
    ChunkIdle /\ ScoreIdle /\ SummaryIdle /\ StoreIdle /\ EdgarIdle /\ CollectIdle /\ RunsIdle

SpecEdgar ==
    /\ InitEdgar
    /\ [][EdgarNext]_vars

InitCollect ==
    ChunkIdle /\ ScoreIdle /\ SummaryIdle /\ PersistInit /\ EdgarIdle /\ CollectInit /\ RunsIdle

SpecCollect ==
    /\ InitCollect
    /\ [][CollectNext]_vars

InitRuns ==
    ChunkIdle /\ ScoreIdle /\ SummaryIdle /\ StoreIdle /\ EdgarIdle /\ CollectIdle /\ RunsInit

SpecRuns ==
    /\ InitRuns
    /\ [][RunsNext]_vars

(***************************************************************************)
(* Properties of the chunker, checked under SpecChunk.                     *)
(***************************************************************************)
WordCounts(cs) == [k \in 1..Len(cs) |-> cs[k].word_count]
Indices(cs) == [k \in 1..Len(cs) |-> cs[k].chunk_index]

IsDefaultConfig ==
    /\ chunk_size = DefaultChunkSize
    /\ chunk_overlap = DefaultChunkOverlap
    /\ min_chunk_size = DefaultMinChunkSize

\* chunk_document has returned the chunks of a one-section document of n words
ScenarioDone(n) ==
    /\ pc = "done"
    /\ IsDefaultConfig
    /\ Len(doc.sections) = 1
    /\ doc.sections[1].words = n

\* C1: the chunks chunk_document returns carry chunk_index 0, 1, 2, ... over the
\* whole returned list, continuing across sections, so no two share an index.
C1_ChunkIndexContinuous ==
    pc = "done" => \A k \in 1..Len(chunks) : chunks[k].chunk_index = k - 1

\* C2 as stated: every chunk of a text unit has min_chunk_size <= word_count <=
\* chunk_size, except that the final chunk may exceed chunk_size when the tail
\* after its candidate end is smaller than min_chunk_size.
C2_SizeBounds_AsStated ==
    pc = "return_text" =>
        \A k \in 1..Len(section_chunks) :
            LET c == section_chunks[k]
            IN  /\ c.word_count >= min_chunk_size
                /\ \/ c.word_count <= chunk_size
                   \/ /\ k = Len(section_chunks)
                      /\ words - (c.start_idx + chunk_size) < min_chunk_size

\* C2 amended: when min_chunk_size <= chunk_size, every chunk of a text unit has
\* min_chunk_size <= word_count <= chunk_size, except the final chunk, which may
\* exceed chunk_size when the tail after its candidate end is smaller than
\* min_chunk_size, and may be smaller than min_chunk_size when it is the only
\* chunk of the unit.
C2_SizeBounds ==
    (pc = "return_text" /\ min_chunk_size <= chunk_size) =>
        \A k \in 1..Len(section_chunks) :
            LET c == section_chunks[k]
            IN  /\ \/ c.word_count >= min_chunk_size
                   \/ Len(section_chunks) = 1
                /\ \/ c.word_count <= chunk_size
                   \/ /\ k = Len(section_chunks)
                      /\ words - (c.start_idx + chunk_size) < min_chunk_size

\* a unit of several chunks whose final chunk absorbed a tiny tail
C2_Witness ==
    /\ pc = "return_text"
    /\ min_chunk_size <= chunk_size
    /\ Len(section_chunks) >= 2
    /\ section_chunks[Len(section_chunks)].word_count > chunk_size

\* C3 as stated: the 2,500-word section under the default configuration yields
\* word counts [1000, 1000, 500] with indices [0, 1, 2].
C3_Scenario1_AsStated ==
    ScenarioDone(2500) =>
        /\ WordCounts(chunks) = <<1000, 1000, 500>>
        /\ Indices(chunks) = <<0, 1, 2>>

\* C3 amended: the 2,500-word section under the default configuration yields
\* exactly three chunks, word counts [1000, 1000, 700], indices [0, 1, 2], cut
\* from the word spans [0,1000), [900,1900), [1800,2500).
C3_Scenario1 ==
    ScenarioDone(2500) =>
        /\ WordCounts(chunks) = <<1000, 1000, 700>>
        /\ Indices(chunks) = <<0, 1, 2>>
        /\ [k \in 1..Len(chunks) |-> <<chunks[k].start_idx, chunks[k].end_idx>>]
             = <<<<0, 1000>>, <<900, 1900>>, <<1800, 2500>>>>

C3_Witness == ScenarioDone(2500) /\ Len(chunks) = 3

\* C4 as stated: the 2,150-word section under the default configuration yields
\* word counts [1000, 1150] with indices [0, 1].
C4_Scenario2_AsStated ==
    ScenarioDone(2150) =>
        /\ WordCounts(chunks) = <<1000, 1150>>
        /\ Indices(chunks) = <<0, 1>>

\* C4 amended: the 2,150-word section yields three chunks, word counts
\* [1000, 1000, 350], indices [0, 1, 2] (250 words remain after chunk 1, not
\* fewer than min_chunk_size); a 2,050-word section yields [1000, 1150], indices
\* [0, 1], its 150-word tail absorbed by chunk 1.
C4_Scenario2 ==
    /\ ScenarioDone(2150) =>
          /\ WordCounts(chunks) = <<1000, 1000, 350>>
          /\ Indices(chunks) = <<0, 1, 2>>
    /\ ScenarioDone(2050) =>
          /\ WordCounts(chunks) = <<1000, 1150>>
          /\ Indices(chunks) = <<0, 1>>

C4_Witness == ScenarioDone(2150) /\ Len(chunks) = 3 /\ chunks[3].word_count = 350

\* the words of the spans of cs, each span without the prefix the spans before
\* it already gave; words are named by their position 1..n in the unit
RECURSIVE Reconstruct(_, _)
Reconstruct(cs, covered) ==
    IF cs = <<>> THEN <<>>
    ELSE LET c == Head(cs)
             from == Max(c.start_idx, covered)
         IN  [j \in 1..(c.end_idx - from) |-> from + j] \o Reconstruct(Tail(cs), c.end_idx)

\* C5: the spans of the chunks of a text unit start at word 0, end at the last
\* word, each next span begins no later than the previous one ends, and the
\* spans without their overlapping prefixes concatenate to the unit's words.
C5_Lossless ==
    pc = "return_text" =>
        /\ words = 0 => section_chunks = <<>>
        /\ words > 0 =>
              /\ section_chunks # <<>>
              /\ section_chunks[1].start_idx = 0
              /\ section_chunks[Len(section_chunks)].end_idx = words
        /\ \A k \in 1..(Len(section_chunks) - 1) :
              section_chunks[k + 1].start_idx <= section_chunks[k].end_idx
        /\ Reconstruct(section_chunks, 0) = [j \in 1..words |-> j]

\* a unit cut into several overlapping chunks
C5_Witness ==
    /\ pc = "return_text"
    /\ chunk_overlap > 0
    /\ Len(section_chunks) >= 3

(***************************************************************************)
(* Properties of the scorers, checked under SpecScore.                     *)
(***************************************************************************)
Scorers ==
    {"analyze_job_postings", "analyze_patents", "analyze_tech_stack",
     "_score_leadership_text"}

\* C6: for each of the four scorers and every observation list, the
\* normalized_score it computes, and that of any signal it returns, lies in
\* [0, 100] (0..1000 tenths).
C6_ScoresInRange ==
    call.op \in Scorers =>
        /\ 0 <= call.score /\ call.score <= 1000
        /\ \A k \in 1..Len(call.signals) :
              /\ 0 <= call.signals[k].normalized_score
              /\ call.signals[k].normalized_score <= 1000

\* 10,000 AI postings, more of them than tech postings, score exactly 100
C6_Witness ==
    /\ call.op = "analyze_job_postings"
    /\ call.observations >= 10000
    /\ CountWhere(call.input, IsAiRelated) > CountWhere(call.input, IsTechJob)
    /\ CountWhere(call.input, IsTechJob) > 0
    /\ call.score = 1000

\* C10: given an empty observation list, each of the hiring, innovation and
\* digital-presence scorers returns one signal with normalized_score 0 that
\* carries its category, source, confidence and metadata.
C10_EmptyListYieldsZeroSignal ==
    (call.op \in {"analyze_job_postings", "analyze_patents", "analyze_tech_stack"}
       /\ call.observations = 0) =>
        /\ call.outcome = "returned"
        /\ Len(call.signals) = 1
        /\ call.signals[1].normalized_score = 0
        /\ call.signals[1].category \in
              {"technology_hiring", "innovation_activity", "digital_presence"}
        /\ {"source", "confidence", "metadata"} \subseteq DOMAIN call.signals[1]

(***************************************************************************)
(* Properties of CompanySignalSummary, checked under SpecSummary.          *)
(***************************************************************************)
\* 0.30*hiring + 0.25*innovation + 0.25*digital + 0.20*leadership of the object's
\* current fields, times CompositeScale
CompositeOfFields(obj) ==
    30 * obj.technology_hiring_score + 25 * obj.innovation_activity_score
    + 25 * obj.digital_presence_score + 20 * obj.leadership_signals_score

\* C7: whatever composite_score the caller supplies, a freshly constructed
\* CompanySignalSummary has composite_score = 0.30*hiring + 0.25*innovation +
\* 0.25*digital + 0.20*leadership; all-zero gives 0 and all-100 gives 100.
C7_ConstructedComposite ==
    (summary.constructed /\ summary.last_op = "construct") =>
        /\ summary.composite_score = CompositeOfFields(summary)
        /\ (\A f \in CategoryFields : summary[f] = 0) => summary.composite_score = 0
        /\ (\A f \in CategoryFields : summary[f] = 1000) =>
              summary.composite_score = 1000 * CompositeScale

\* all four scores 100, composite supplied as 0: the object holds 100
C7_Witness ==
    /\ summary.constructed
    /\ summary.last_op = "construct"
    /\ \A f \in CategoryFields : summary[f] = 1000
    /\ summary.supplied_composite = 0
    /\ summary.composite_score = 1000 * CompositeScale

\* C8: after any sequence of operations on a CompanySignalSummary, assignments
\* to its category score fields included, composite_score equals the weighted
\* function of its current four category scores.
C8_CompositeAlwaysDerived ==
    summary.constructed => summary.composite_score = CompositeOfFields(summary)

(***************************************************************************)
(* Properties of the leadership-excluded report, checked under SpecStore.  *)
(***************************************************************************)
IsScore(x, v) == x.num = v * x.den
InScoreRange(x) == 0 <= x.num /\ x.num <= 1000 * x.den

\* C9: the three report weights sum to 1.0; every report row whose category
\* scores are in [0, 100] has its composite in [0, 100]; a row whose three
\* category scores are all 100 has composite 100.
C9_RenormalizedReport ==
    /\ W_TECH_HIRING + W_INNOVATION + W_DIGITAL = W_DEN
    /\ \A k \in 1..Len(report.companies) :
          LET r == report.companies[k]
          IN  /\ (/\ InScoreRange(r.technology_hiring_score)
                  /\ InScoreRange(r.innovation_activity_score)
                  /\ InScoreRange(r.digital_presence_score)) =>
                    /\ 0 <= r.composite_score_without_leadership
                    /\ r.composite_score_without_leadership <= 1000
              /\ (/\ IsScore(r.technology_hiring_score, 1000)
                  /\ IsScore(r.innovation_activity_score, 1000)
                  /\ IsScore(r.digital_presence_score, 1000)) =>
                    r.composite_score_without_leadership = 1000

\* a report row of a company whose three category scores are all 100
C9_Witness ==
    \E k \in 1..Len(report.companies) :
        LET r == report.companies[k]
        IN  /\ IsScore(r.technology_hiring_score, 1000)
            /\ IsScore(r.innovation_activity_score, 1000)
            /\ IsScore(r.digital_presence_score, 1000)
            /\ r.composite_score_without_leadership = 1000

(***************************************************************************)
(* Properties of analyze_leadership, checked under SpecScore.              *)
(***************************************************************************)
\* C11: analyze_leadership ignores, per source, content shorter than
\* MIN_TEXT_LENGTH characters: every signal it returns comes from a text of at
\* least MIN_TEXT_LENGTH characters, and it returns the empty list when neither
\* source has that much text.
C11_ShortTextIgnored ==
    call.op = "analyze_leadership" =>
        /\ \A k \in 1..Len(call.signals) :
              call.signals[k].metadata.text_length >= MIN_TEXT_LENGTH
        /\ (/\ call.input.website_data.length < MIN_TEXT_LENGTH
            /\ call.input.linkedin_data.length < MIN_TEXT_LENGTH)
              => call.signals = <<>>

\* C12: analyze_leadership returns one signal per source that is present with
\* non-empty text, the website's first, never merged; each has category
\* leadership_signals, source company_website resp. linkedin and the caller's
\* company_id; a source that is None or has empty text gives no signal.
C12_OneSignalPerSource ==
    call.op = "analyze_leadership" =>
        LET w == call.input.website_data
            l == call.input.linkedin_data
            has_w == w.present /\ w.length > 0
            has_l == l.present /\ l.length > 0
            n == (IF has_w THEN 1 ELSE 0) + (IF has_l THEN 1 ELSE 0)
        IN  /\ call.outcome = "returned"
            /\ Len(call.signals) = n
            /\ has_w => /\ call.signals[1].source = "company_website"
                        /\ call.signals[1].metadata.text_length = w.length
            /\ has_l => /\ call.signals[n].source = "linkedin"
                        /\ call.signals[n].metadata.text_length = l.length
            /\ \A k \in 1..n :
                  /\ call.signals[k].category = SignalCategory.LEADERSHIP_SIGNALS
                  /\ call.signals[k].company_id = call.input.company_id

\* both sources have text: two signals, the website's first
C12_Witness ==
    /\ call.op = "analyze_leadership"
    /\ Len(call.signals) = 2
    /\ call.signals[1].source = "company_website"
    /\ call.signals[2].source = "linkedin"

\* one source is a dict with empty text, the other is None: the empty list
C12_WitnessEmptyText ==
    /\ call.op = "analyze_leadership"
    /\ call.input.website_data.present
    /\ call.input.website_data.length = 0
    /\ call.signals = <<>>

(***************************************************************************)
(* Properties of the hiring and leadership formulas, under SpecScore.      *)
(***************************************************************************)
\* the absolute value
Abs(x) == IF x < 0 THEN -x ELSE x

\* C13: the hiring score is min(ai_ratio*60, 60) + min(skills/10, 1)*20 +
\* min(ai_jobs/5, 1)*20 rounded to one decimal (within half a tenth of the exact
\* value), with ai_ratio = ai_jobs / tech_jobs, or 0 without tech jobs; 10 tech
\* postings, 4 of them AI-related, with 6 distinct skills score 52.0.
C13_HiringFormula ==
    call.op = "analyze_job_postings" =>
        LET t == CountWhere(call.input, IsTechJob)
            a == CountWhere(call.input, IsAiRelated)
            s == Cardinality(UnionWhere(call.input, Always, AiSkillsOf))
            skill == IF s < 10 THEN 2 * s ELSE 20
            volume == IF a < 5 THEN 4 * a ELSE 20
            ratio_t == IF a < t THEN 60 * a ELSE 60 * t     \* min(a/t*60, 60) times t
        IN  /\ t = 0 => call.score = 10 * (skill + volume)
            /\ t > 0 => 2 * Abs(t * call.score - 10 * (ratio_t + t * (skill + volume))) <= t
            /\ (t = 10 /\ a = 4 /\ s = 6) => call.score = 520

\* the scenario: 10 tech postings, 4 AI-related, 6 distinct skills, score 52.0
C13_Witness ==
    /\ call.op = "analyze_job_postings"
    /\ CountWhere(call.input, IsTechJob) = 10
    /\ CountWhere(call.input, IsAiRelated) = 4
    /\ Cardinality(UnionWhere(call.input, Always, AiSkillsOf)) = 6
    /\ call.score = 520

\* C14: the leadership score of a text is min(8*L, 50) + min(8*C, 50) for L
\* leadership and C commitment keywords found; 3 and 2 hits give 40.0; a text
\* with no more hits of either kind never scores higher.
C14_LeadershipFormula ==
    call.op = "_score_leadership_text" =>
        LET L == Cardinality(call.input.leadership)
            C == Cardinality(call.input.commitment)
        IN  /\ call.score = 10 * ((IF 8 * L < 50 THEN 8 * L ELSE 50)
                                  + (IF 8 * C < 50 THEN 8 * C ELSE 50))
            /\ (L = 3 /\ C = 2) => call.score = 400
            /\ \A other \in LeadershipTexts :
                  (/\ Cardinality(other.leadership) <= L
                   /\ Cardinality(other.commitment) <= C)
                      => LeadershipScore(other) <= call.score

\* the scenario: 3 leadership hits and 2 commitment hits, score 40.0
C14_Witness ==
    /\ call.op = "_score_leadership_text"
    /\ Cardinality(call.input.leadership) = 3
    /\ Cardinality(call.input.commitment) = 2
    /\ call.score = 400

\* both dimensions at their cap
C14_WitnessCapped ==
    /\ call.op = "_score_leadership_text"
    /\ Cardinality(call.input.leadership) = 12
    /\ call.score = 1000

(***************************************************************************)
(* Properties of the persistence calls, checked under SpecPersist.         *)
(***************************************************************************)
\* C15: after any sequence of insert_document, insert_chunks and insert_signal
\* calls there is at most one document row per content hash, a repeated
\* insert_document writes nothing and returns the id of the existing row, a
\* document that had chunk rows before an insert_chunks call got none from it,
\* and there is at most one signal row per signal id.
C15_IdempotentReinsertion ==
    /\ \A j, k \in 1..Len(documents) :
          documents[j].content_hash = documents[k].content_hash => j = k
    /\ \A j, k \in 1..Len(external_signals) :
          external_signals[j].id = external_signals[k].id => j = k
    /\ db_call.op = "insert_document" =>
          \E k \in 1..Len(documents) :
              /\ documents[k].content_hash = db_call.key
              /\ documents[k].id = db_call.returned
              /\ db_call.wrote \in {0, 1}
              /\ db_call.wrote = 1 => k = Len(documents)
    /\ db_call.op = "insert_chunks" =>
          \* more rows than this call wrote: the document had chunks before it
          (ChunkCount(db_call.key) > db_call.wrote => db_call.wrote = 0)
    /\ db_call.op = "insert_signal" => db_call.wrote \in {0, 1}

\* insert_document was repeated for a stored document that has chunk rows
C15_Witness ==
    /\ db_call.op = "insert_document"
    /\ db_call.wrote = 0
    /\ ChunkCount(db_call.returned) > 0

\* insert_chunks was repeated for a document that has chunk rows
C15_WitnessChunks ==
    /\ db_call.op = "insert_chunks"
    /\ db_call.returned > 0
    /\ db_call.wrote = 0
    /\ ChunkCount(db_call.key) > 0

\* insert_signal was repeated with a stored signal
C15_WitnessSignal ==
    /\ db_call.op = "insert_signal"
    /\ db_call.wrote = 0
    /\ external_signals # <<>>

\* C16: company_signal_summaries holds at most one row per company; an
\* update_signal_summary call that writes leaves that company's row with all its
\* derived fields (four category scores, composite_score, signal_count) computed
\* from the signals stored at that moment, and no second row.
C16_OneSummaryRowPerCompany ==
    /\ \A j, k \in 1..Len(company_signal_summaries) :
          company_signal_summaries[j].company_id = company_signal_summaries[k].company_id
              => j = k
    /\ (db_call.op = "update_signal_summary" /\ db_call.wrote = 1) =>
          \E k \in 1..Len(company_signal_summaries) :
              LET r == company_signal_summaries[k]
                  signals == SignalsOf(db_call.key)
              IN  /\ r.company_id = db_call.key
                  /\ r.technology_hiring_score
                       = CategoryAverage(signals, SignalCategory.TECHNOLOGY_HIRING)
                  /\ r.innovation_activity_score
                       = CategoryAverage(signals, SignalCategory.INNOVATION_ACTIVITY)
                  /\ r.digital_presence_score
                       = CategoryAverage(signals, SignalCategory.DIGITAL_PRESENCE)
                  /\ r.leadership_signals_score
                       = CategoryAverage(signals, SignalCategory.LEADERSHIP_SIGNALS)
                  /\ r.composite_score
                       = StoredComposite(r.technology_hiring_score, r.innovation_activity_score,
                                         r.digital_presence_score, r.leadership_signals_score)
                  /\ r.signal_count = Len(signals)

\* both companies have a summary row, and c1's was just rewritten from its two signals
C16_Witness ==
    /\ Len(company_signal_summaries) = 2
    /\ db_call.op = "update_signal_summary"
    /\ db_call.wrote = 1
    /\ db_call.key = "c1"
    /\ company_signal_summaries[1].company_id = "c2"
    /\ company_signal_summaries[2].signal_count = 2

(***************************************************************************)
(* Properties of the fetch functions, checked under SpecScore.             *)
(***************************************************************************)
\* C17: fetch_patents and fetch_tech_stack never raise; without an API key (or
\* domain) and on every failed provider call (HTTP error, provider-reported
\* error, malformed payload) they return the empty list, as they do for a
\* provider that has no data.
C17_FetchFailuresSwallowed ==
    call.op \in {"fetch_patents", "fetch_tech_stack"} =>
        /\ call.outcome = "returned"
        /\ (\/ call.input.api_key \in {None, "", " "}
            \/ (call.op = "fetch_tech_stack" /\ call.input.domain \in {"", " "})
            \/ call.input.response # "ok")
              => call.observations = 0

\* a key is configured and the provider answers with an HTTP error: empty list
C17_Witness ==
    /\ call.op = "fetch_patents"
    /\ call.input.api_key = "key"
    /\ call.input.response = "http_error"
    /\ call.outcome = "returned"
    /\ call.observations = 0

\* a malformed payload from the tech provider: empty list
C17_WitnessMalformed ==
    /\ call.op = "fetch_tech_stack"
    /\ call.input.api_key = "key"
    /\ call.input.domain = "example.com"
    /\ call.input.response = "malformed"
    /\ call.outcome = "returned"
    /\ call.observations = 0

(***************************************************************************)
(* Properties of parse_filing, checked under SpecScore.                    *)
(***************************************************************************)
\* C18: parse_filing on a suffix that is not .pdf, .htm, .html or .txt in any
\* letter case fails with the unsupported-file-type error, without calling a
\* reader (again) and without a ParsedDocument; on the four supported suffixes
\* it never raises that error.
C18_UnsupportedSuffixFails ==
    call.op = "parse_filing" =>
        LET supported ==
                call.input.suffix \in {".pdf", ".PDF", ".htm", ".HTM", ".html", ".Html",
                                       ".txt", ".TXT"}
        IN  /\ ~supported =>
                /\ call.outcome = "ValueError: Unsupported file type"
                /\ call.observations = 0
                /\ call.signals = <<>>
            /\ supported =>
                /\ call.outcome # "ValueError: Unsupported file type"
                /\ call.observations = 1

\* an unsupported suffix was rejected
C18_Witness ==
    /\ call.op = "parse_filing"
    /\ call.input.suffix = ".doc"
    /\ call.outcome = "ValueError: Unsupported file type"

\* an upper-case supported suffix was parsed
C18_WitnessUpperCase ==
    /\ call.op = "parse_filing"
    /\ call.input.suffix = ".PDF"
    /\ call.outcome = "returned"

(***************************************************************************)
(* Termination and overlap of the chunking loop, under SpecChunkLive.      *)
(***************************************************************************)
\* C19: with 0 <= overlap < chunk_size (chunk_size >= 1) chunk_document returns
\* for every text, and the start index strictly increases from one iteration
\* of the while loop to the next.
C19_LoopTerminates ==
    /\ [](chunk_overlap < chunk_size => <>(pc = "done"))
    /\ [][(pc = "while" /\ pc' = "while" /\ chunk_overlap < chunk_size)
            => start_idx' > start_idx]_vars

\* with overlap >= chunk_size the loop comes back to a start index it already
\* cut a chunk from, the last word not consumed: it goes on for ever
C19_Witness ==
    /\ pc = "while"
    /\ chunk_overlap >= chunk_size
    /\ start_idx < words
    /\ \E k \in 1..Len(section_chunks) :
          /\ section_chunks[k].start_idx = start_idx
          /\ section_chunks[k].end_idx < words

\* with a valid configuration a long unit is returned in several chunks
C19_WitnessValid ==
    /\ pc = "done"
    /\ chunk_overlap < chunk_size
    /\ chunk_overlap > 0
    /\ Len(chunks) >= 3

\* words that the spans of two chunks have in common
SharedWords(a, b) ==
    Max(Min(a.end_idx, b.end_idx) - Max(a.start_idx, b.start_idx), 0)

\* C20: within one text unit each chunk after the first starts exactly
\* chunk_overlap words before the end of the previous one, consecutive chunks
\* share exactly chunk_overlap words, and only the last chunk of the unit
\* reaches the last word.
C20_OverlapExact ==
    \A k \in 1..(Len(section_chunks) - 1) :
        /\ section_chunks[k + 1].start_idx = section_chunks[k].end_idx - chunk_overlap
        /\ SharedWords(section_chunks[k], section_chunks[k + 1]) = chunk_overlap
        /\ section_chunks[k].end_idx < words

\* a returned unit of three chunks or more with a positive overlap, the last
\* chunk ending on the last word
C20_Witness ==
    /\ pc = "return_text"
    /\ chunk_overlap > 0
    /\ Len(section_chunks) >= 3
    /\ section_chunks[Len(section_chunks)].end_idx = words

(***************************************************************************)
(* Character offsets of the chunks, under SpecChunk.                       *)
(***************************************************************************)
\* C21: every emitted chunk has end_char > start_char and a word_count equal
\* to the number of words content.split() gives, and within one text unit
\* start_char does not decrease as chunk_index grows.
C21_ChunkOffsets ==
    /\ \A k \in 1..Len(section_chunks) :
          /\ section_chunks[k].end_char > section_chunks[k].start_char
          /\ section_chunks[k].word_count = SplitLen(section_chunks[k].content, doc.word_len)
    /\ \A j, k \in 1..Len(section_chunks) :
          section_chunks[j].chunk_index <= section_chunks[k].chunk_index
            => section_chunks[j].start_char <= section_chunks[k].start_char

\* a returned unit of several chunks of multi-character words, overlapping
C21_Witness ==
    /\ pc = "return_text"
    /\ doc.word_len > 1
    /\ chunk_overlap > 0
    /\ Len(section_chunks) >= 2
    /\ section_chunks[2].start_char > 0

(***************************************************************************)
(* Section extraction, under SpecScore.                                    *)
(***************************************************************************)
\* the section the text holds for a name: from the first heading of the name
\* to the first item that starts NextItemSkip characters or more after it (or
\* to the end of the text), cut to MaxSectionChars characters
StatedSection(content, name) ==
    LET h == SearchHeading(content, name)
        lo == Offset(content, h)
        item == SearchItem(content, lo + NextItemSkip)
        hi == IF item # 0 THEN Offset(content, item) ELSE Chars(content)
    IN  [name |-> name, lo |-> lo, hi |-> Min(hi, lo + MaxSectionChars)]

\* C22: every section name whose heading occurs in the text is extracted from
\* the heading's first occurrence to the first item found 100 characters or
\* more after it (or the end of the text), cut to 50,000 characters; the
\* other names are absent and the result may be empty.
C22_SectionsExtracted ==
    call.op = "_extract_sections" =>
        /\ \A i \in 1..Len(SectionNames) :
              (\E k \in 1..Len(call.input) : call.input[k].kind = SectionNames[i])
                <=> (\E s \in 1..Len(call.signals) : call.signals[s].name = SectionNames[i])
        /\ \A s \in 1..Len(call.signals) :
              call.signals[s] = StatedSection(call.input, call.signals[s].name)

\* a text of plain characters only: its sections are the stated ones
C22_PlainTextExtracted ==
    (call.op = "_extract_sections" /\ \A k \in 1..Len(call.input) : call.input[k].kind # "wide")
        => C22_SectionsExtracted

(***************************************************************************)
(* The innovation score, under SpecScore.                                  *)
(***************************************************************************)
\* the patents of the list that are flagged AI-related and filed less than
\* `days` days ago, as runs
CountedPatents(list, days) ==
    SelectSeq(list, LAMBDA run : run.count > 0 /\ run.item.is_ai_related /\ run.item.age_days < days)

\* C23: the innovation score is min(5a, 50) + min(2r, 20) + min(10c, 30) for a
\* the AI-related patents filed in the last 5 years, r those of them filed in
\* the last year and c the distinct category tags among them; r <= a, and the
\* patents that are not AI-related or are older change nothing.
C23_InnovationFormula ==
    call.op = "analyze_patents" =>
        LET counted == CountedPatents(call.input, DefaultYears * 365)
            a == Length(counted)
            r == Length(CountedPatents(call.input, 365))
            c == Cardinality(UNION { counted[k].item.ai_categories : k \in 1..Len(counted) })
        IN  /\ call.score = 10 * (Min(5 * a, 50) + Min(2 * r, 20) + Min(10 * c, 30))
            /\ r <= a

\* AI patents older than the window and patents that are not AI-related,
\* beside nothing counted: the score is 0
C23_Witness ==
    /\ call.op = "analyze_patents"
    /\ call.score = 0
    /\ \E k \in 1..Len(call.input) :
          /\ call.input[k].count > 0
          /\ call.input[k].item.is_ai_related
          /\ call.input[k].item.age_days >= DefaultYears * 365
          /\ call.input[k].item.ai_categories # {}

\* a recent AI patent beside one filed earlier in the window: 0 < r < a
C23_WitnessRecent ==
    /\ call.op = "analyze_patents"
    /\ Length(CountedPatents(call.input, 365)) > 0
    /\ Length(CountedPatents(call.input, 365)) < Length(CountedPatents(call.input, DefaultYears * 365))
    /\ call.score < 1000

(***************************************************************************)
(* Sections and the fallback of chunk_document, under SpecChunk.           *)
(***************************************************************************)
\* the position of a section name in the document's section map, 0 if absent
SectionPosition(name) ==
    LET S == { i \in 1..Len(doc.sections) : doc.sections[i].name = name }
    IN  IF S = {} THEN 0 ELSE Least(S)

C24_WitnessFallback ==
    /\ pc = "done"
    /\ doc.sections = <<>>
    /\ Len(chunks) >= 2

(***************************************************************************)
(* Retry with backoff, under SpecEdgar.                                    *)
(***************************************************************************)
\* the invocations of the call that ended in the given way
Invocations(outcome) == { k \in 1..Len(edgar.results) : edgar.results[k] = outcome }

\* C25: a call of _retry_with_backoff invokes func at most max_retries times;
\* it returns on the first invocation that succeeds, request_count one higher
\* and nothing invoked after it; if every invocation failed it ends raising;
\* rate_limit_hits grows by one for each invocation failed by a rate limit.
C25_RetryBounded ==
    /\ Len(edgar.results) <= Max(edgar.max_retries, 0)
    /\ edgar.rate_limit_hits =
          edgar.entry_rate_limit_hits + Cardinality(Invocations("rate_limit"))
    /\ edgar.pc = "returned" <=> Invocations("returned") # {}
    /\ Invocations("returned") \subseteq {Len(edgar.results)}
    /\ edgar.request_count =
          edgar.entry_request_count + Cardinality(Invocations("returned"))
    /\ edgar.pc = "raised" <=> edgar.raised # "none"

\* a call that returned on its third invocation, after a rate limit and
\* another error
C25_Witness ==
    /\ edgar.pc = "returned"
    /\ edgar.results = <<"rate_limit", "error", "returned">>
    /\ edgar.request_count = edgar.entry_request_count + 1

\* a call whose every invocation hit the rate limit ends raising
C25_WitnessExhausted ==
    /\ edgar.pc = "raised"
    /\ edgar.max_retries = DefaultMaxRetries
    /\ edgar.results = <<"rate_limit", "rate_limit", "rate_limit">>
    /\ edgar.rate_limit_hits >= 3

(***************************************************************************)
(* Collection runs, under SpecCollect.                                     *)
(***************************************************************************)
\* the chunk_index values of the rows stored for a document, in row order
StoredChunks(document_id) ==
    LET rows == SelectSeq(document_chunks, LAMBDA r : r.document_id = document_id)
    IN  [k \in 1..Len(rows) |-> rows[k].chunk_index]

\* what the claim asks of the iteration just finished
ChunksStoredWithDocument ==
    (collect.last.parsed /\ collect.last.stored /\ ~collect.last.db_failed)
        => StoredChunks(collect.last.doc_id) = collect.last.chunks

\* C26: in both collection paths, once the loop is through with a filing that
\* was parsed and whose document row was stored for the first time (no
\* statement having failed), the filing's whole chunk list is stored under
\* that document's id.
C26_ChunksStoredWithDocument ==
    collect.path \in CollectionPaths => ChunksStoredWithDocument

\* the script does store them
C26_ScriptStoresChunks ==
    collect.path = "collect_documents" => ChunksStoredWithDocument

\* the API path never stores a chunk
C26_ApiStoresNoChunk ==
    collect.path = "run_document_collection" => document_chunks = <<>>

(***************************************************************************)
(* The report does not depend on leadership, under SpecStore.              *)
(***************************************************************************)
\* two report rows of one company with the same three category scores
SameThreeScores(a, b) ==
    /\ a.ticker = b.ticker
    /\ a.technology_hiring_score = b.technology_hiring_score
    /\ a.innovation_activity_score = b.innovation_activity_score
    /\ a.digital_presence_score = b.digital_presence_score

\* C27: whenever a report follows another (by the API or by the script, the
\* summaries updated in between or not), rows that agree on the hiring,
\* innovation and digital scores carry the same leadership-excluded composite,
\* whatever leadership_signals_score the summary row had each time.
C27_ReportIgnoresLeadership ==
    [][\A j \in 1..Len(report.companies), k \in 1..Len(report'.companies) :
          SameThreeScores(report.companies[j], report'.companies[k])
            => report.companies[j].composite_score_without_leadership
                 = report'.companies[k].composite_score_without_leadership]_vars

\* a report by the script on a summary row whose leadership score is positive:
\* the row's composite is the API's value for the three scores, and is not
\* the stored composite, which counts leadership
C27_Witness ==
    /\ report.by = "script"
    /\ Len(report.companies) = 1
    /\ Len(company_signal_summaries) = 1
    /\ company_signal_summaries[1].leadership_signals_score.num > 0
    /\ report.companies[1].technology_hiring_score
         = company_signal_summaries[1].technology_hiring_score
    /\ report.companies[1].technology_hiring_score.num > 0
    /\ report.companies[1].composite_score_without_leadership
         = CompositeWithoutLeadership(company_signal_summaries[1].technology_hiring_score,
                                      company_signal_summaries[1].innovation_activity_score,
                                      company_signal_summaries[1].digital_presence_score)
    /\ Rat(report.companies[1].composite_score_without_leadership, 1)
         # company_signal_summaries[1].composite_score

(***************************************************************************)
(* Interleaved summary upserts, under SpecRuns.                            *)
(***************************************************************************)
\* C28: once two interleaved runs for one company have both finished, the
\* company's summary row holds the category scores, composite and
\* signal_count computed from all the signals stored for the company.
C28_SummaryUpToDate ==
    (\A r \in RunIds : runs[r].pc = "done") =>
        /\ Len(company_signal_summaries) = 1
        /\ company_signal_summaries[1] = SummaryRow(RunCompany, SignalsOf(RunCompany))

(***************************************************************************)
(* Chunk rows after failed and repeated insert_chunks calls, under         *)
(* SpecPersist.                                                            *)
(***************************************************************************)
\* the rows of a document were all written from a list of n chunks
WrittenFrom(document_id, n) ==
    \A k \in 1..Len(document_chunks) :
        document_chunks[k].document_id = document_id => document_chunks[k].list_len = n

\* the rows of a document are all the rows of the list they were written from
CompleteChunks(document_id) == WrittenFrom(document_id, ChunkCount(document_id))

\* C29: after insert_chunks has been called again with the chunk list that the
\* rows of the document were written from (the retry of a call that failed
\* part-way), the rows stored for the document are that complete chunk list.
C29_ChunksCompleteAfterRetry ==
    (/\ db_call.op = "insert_chunks"
     /\ db_call.returned > 0
     /\ db_call.wrote = 0
     /\ ChunkCount(db_call.key) > 0
     /\ WrittenFrom(db_call.key, db_call.returned))
        => CompleteChunks(db_call.key)

\* a call that stores every row of its list leaves the document complete
C29_FullWriteComplete ==
    (db_call.op = "insert_chunks" /\ db_call.wrote > 0 /\ db_call.wrote = db_call.returned)
        => CompleteChunks(db_call.key)

(***************************************************************************)
(* Word counts of the chunks of one text unit, under SpecChunk.            *)
(***************************************************************************)
\* C30: with min_chunk_size >= 1 (and 0 <= overlap < chunk_size, chunk_size >=
\* 1), every chunk of a returned text unit except the last has exactly
\* chunk_size words, the last has at most chunk_size + min_chunk_size - 1
\* words, and when the unit gave more than one chunk the last has at least
\* min_chunk_size + chunk_overlap words.
C30_ChunkWordCounts ==
    (/\ pc = "return_text"
     /\ chunk_size >= 1
     /\ min_chunk_size >= 1
     /\ chunk_overlap < chunk_size
     /\ section_chunks # <<>>) =>
        LET n == Len(section_chunks)
        IN  /\ \A k \in 1..(n - 1) : section_chunks[k].word_count = chunk_size
            /\ section_chunks[n].word_count <= chunk_size + min_chunk_size - 1
            /\ n > 1 => section_chunks[n].word_count >= min_chunk_size + chunk_overlap

\* a unit of several chunks whose last chunk took a tail of min_chunk_size - 1
\* words and so has the largest word count allowed
C30_Witness ==
    /\ pc = "return_text"
    /\ min_chunk_size >= 2
    /\ chunk_overlap > 0
    /\ Len(section_chunks) >= 2
    /\ section_chunks[Len(section_chunks)].word_count = chunk_size + min_chunk_size - 1

\* a unit of several chunks whose last chunk has the smallest word count allowed
C30_WitnessSmallest ==
    /\ pc = "return_text"
    /\ min_chunk_size >= 1
    /\ chunk_overlap > 0
    /\ Len(section_chunks) >= 2
    /\ section_chunks[Len(section_chunks)].word_count = min_chunk_size + chunk_overlap

====
